---------------------------- MODULE Spec2Model ----------------------------
(***************************************************************************)
(* A model of mesonbuild/coredata.py: option keys, typed option values,    *)
(* the option store (CoreData) and its persistence (load / save).          *)
(*                                                                         *)
(* Python values are modelled as one-field records whose field name is     *)
(* the Python type: [str |-> <<"a","b">>], [bool |-> TRUE], [int |-> 3],  *)
(* [list |-> <<...>>], [none |-> TRUE].  A Python str is the sequence of   *)
(* its characters, so that split, lstrip, startswith and `in` are          *)
(* computed character by character as CPython computes them.               *)
(* The outcome of a call is [ok |-> value] or [exc |-> exception class].   *)
(***************************************************************************)
EXTENDS Integers, Sequences, FiniteSets, TLC

VARIABLES
    coredata,     \* the CoreData object of the configuring process
    assertions,   \* TRUE: assert statements are executed (python without -O)
    files,        \* meson-private/: file name -> bytes written, or NoFile
    pc,           \* position of the process inside save()
    loaded,       \* outcome of the latest load()
    last,         \* the latest call: its name, arguments and outcome
    hist          \* history: values set explicitly through subproject keys

vars == <<coredata, assertions, files, pc, loaded, last, hist>>

(***************************************************************************)
(* Python str                                                              *)
(***************************************************************************)
s_empty == <<>>
s_build_dot == <<"b", "u", "i", "l", "d", ".">>
s_prefix == <<"p", "r", "e", "f", "i", "x">>
s_libdir == <<"l", "i", "b", "d", "i", "r">>
s_bindir == <<"b", "i", "n", "d", "i", "r">>
s_sysconfdir == <<"s", "y", "s", "c", "o", "n", "f", "d", "i", "r">>
s_buildtype == <<"b", "u", "i", "l", "d", "t", "y", "p", "e">>
s_optimization == <<"o", "p", "t", "i", "m", "i", "z", "a", "t", "i", "o", "n">>
s_debug == <<"d", "e", "b", "u", "g">>
s_werror == <<"w", "e", "r", "r", "o", "r">>
s_strip == <<"s", "t", "r", "i", "p">>
s_warning_level == <<"w", "a", "r", "n", "i", "n", "g", "_", "l", "e", "v", "e", "l">>
s_pkg_config_path == <<"p", "k", "g", "_", "c", "o", "n", "f", "i", "g", "_", "p", "a", "t", "h">>
s_sub == <<"s", "u", "b">>
s_args == <<"a", "r", "g", "s">>
s_std == <<"s", "t", "d">>
s_c == <<"c">>
s_d == <<"d">>
s_cpp == <<"c", "p", "p">>
s_b_lto == <<"b", "_", "l", "t", "o">>
s_backend_ == <<"b", "a", "c", "k", "e", "n", "d", "_">>
s_opt == <<"o", "p", "t">>

\* s.startswith(p)
startswith(s, p) == Len(p) <= Len(s) /\ SubSeq(s, 1, Len(p)) = p

\* s.endswith(p)
endswith(s, p) == Len(p) <= Len(s) /\ SubSeq(s, Len(s) - Len(p) + 1, Len(s)) = p

\* sub in s, for str
contains(s, sub) ==
    \E i \in 1..(Len(s) - Len(sub) + 1) : SubSeq(s, i, i + Len(sub) - 1) = sub

\* the index of the first occurrence of the character c in s, 0 if none
find(s, c) ==
    IF \E i \in 1..Len(s) : s[i] = c
    THEN CHOOSE i \in 1..Len(s) : s[i] = c /\ \A j \in 1..(i - 1) : s[j] # c
    ELSE 0

\* s.split(c): the list of the pieces between the occurrences of c
RECURSIVE split(_, _)
split(s, c) ==
    LET i == find(s, c)
    IN  IF i = 0 THEN <<s>>
        ELSE <<SubSeq(s, 1, i - 1)>> \o split(SubSeq(s, i + 1, Len(s)), c)

\* s.split(c, 1): at most one split, at the first occurrence of c
split1(s, c) ==
    LET i == find(s, c)
    IN  IF i = 0 THEN <<s>>
        ELSE <<SubSeq(s, 1, i - 1), SubSeq(s, i + 1, Len(s))>>

\* s.lstrip(chars): drops leading characters while they belong to chars
RECURSIVE lstrip(_, _)
lstrip(s, chars) ==
    IF s # <<>> /\ \E i \in 1..Len(chars) : chars[i] = s[1]
    THEN lstrip(Tail(s), chars)
    ELSE s

\* sep.join(parts)
RECURSIVE join(_, _)
join(sep, parts) ==
    IF parts = <<>> THEN <<>>
    ELSE IF Len(parts) = 1 THEN parts[1]
    ELSE parts[1] \o sep \o join(sep, Tail(parts))

(***************************************************************************)
(* Python values and call outcomes                                         *)
(***************************************************************************)
None == [none |-> TRUE]
PyStr(s) == [str |-> s]
PyBool(b) == [bool |-> b]
PyInt(n) == [int |-> n]
PyList(l) == [list |-> l]

IsNone(x) == "none" \in DOMAIN x
IsStr(x) == "str" \in DOMAIN x
IsBool(x) == "bool" \in DOMAIN x
IsInt(x) == "int" \in DOMAIN x
IsList(x) == "list" \in DOMAIN x

Ok(v) == [ok |-> v]
Raise(e) == [exc |-> e]
Raised(r) == "exc" \in DOMAIN r

\* a local variable: Body is evaluated with the value bound to its parameter
With(value, Body(_)) == Body(value)

(***************************************************************************)
(* OptionKey                                                               *)
(***************************************************************************)
BUILD == "BUILD"
HOST == "HOST"
MachineChoice == {BUILD, HOST}

\* compilers.all_languages: the languages whose prefix from_string accepts
all_languages == <<s_c, s_cpp, s_d>>

\* OptionKey(name, subproject, machine, language)
OptionKey(name, subproject, machine, language) ==
    [name |-> name, subproject |-> subproject, machine |-> machine,
     language |-> language]

\* OptionKey(name): the other fields at their defaults
Key(name) == OptionKey(name, s_empty, HOST, None)

\* OptionKey.__str__
__str__(self) ==
    LET out1 == IF IsStr(self.language) /\ self.language.str # <<>>
                THEN self.language.str \o <<"_">> \o self.name
                ELSE self.name
        out2 == IF self.machine = BUILD THEN s_build_dot \o out1 ELSE out1
    IN  IF self.subproject # <<>>
        THEN self.subproject \o <<":">> \o out2
        ELSE out2

\* OptionKey.from_string; raw2.lstrip('build.') strips a set of characters
from_string(raw) ==
    With(split(raw, ":"), LAMBDA parts :
    With(IF Len(parts) = 2 THEN parts[1] ELSE s_empty, LAMBDA subproject :
    With(IF Len(parts) = 2 THEN parts[2] ELSE raw, LAMBDA raw2 :
    With(startswith(raw2, s_build_dot), LAMBDA isbuild :
    With(IF isbuild THEN lstrip(raw2, s_build_dot) ELSE raw2, LAMBDA opt1 :
    With(\E i \in 1..Len(all_languages) :
             startswith(opt1, all_languages[i] \o <<"_">>), LAMBDA haslang :
    With(split1(opt1, "_"), LAMBDA sp :
    With(IF haslang THEN sp[2] ELSE opt1, LAMBDA opt :
        IF assertions /\ (contains(opt, <<":">>) \/ contains(opt, s_build_dot))
        THEN Raise("AssertionError")
        ELSE Ok(OptionKey(opt, subproject, IF isbuild THEN BUILD ELSE HOST,
                          IF haslang THEN PyStr(sp[1]) ELSE None))))))))))

\* OptionKey.evolve and its conveniences
as_root(self) == [self EXCEPT !.subproject = s_empty]
as_build(self) == [self EXCEPT !.machine = BUILD]
as_host(self) == [self EXCEPT !.machine = HOST]

(***************************************************************************)
(* UserOption and its subclasses.  An option object is a record            *)
(* [kind, choices, yielding, value]; validate_value returns Ok(value) or   *)
(* Raise("MesonException").                                                *)
(***************************************************************************)
s_true == <<"t", "r", "u", "e">>
s_false == <<"f", "a", "l", "s", "e">>
upper_case == <<"A", "B", "C", "D", "E", "F", "G", "H", "I", "J", "K", "L", "M",
                "N", "O", "P", "Q", "R", "S", "T", "U", "V", "W", "X", "Y", "Z">>
lower_case == <<"a", "b", "c", "d", "e", "f", "g", "h", "i", "j", "k", "l", "m",
                "n", "o", "p", "q", "r", "s", "t", "u", "v", "w", "x", "y", "z">>

\* s.lower()
lower(s) ==
    [i \in 1..Len(s) |->
        IF \E j \in 1..26 : upper_case[j] = s[i]
        THEN lower_case[CHOOSE j \in 1..26 : upper_case[j] = s[i]]
        ELSE s[i]]

\* s.strip(): leading and trailing blanks removed
RECURSIVE strip(_)
strip(s) ==
    IF s # <<>> /\ s[1] = " " THEN strip(Tail(s))
    ELSE IF s # <<>> /\ s[Len(s)] = " " THEN strip(SubSeq(s, 1, Len(s) - 1))
    ELSE s

\* x in seq (Python ==: equal type and equal value)
py_in(x, seq) == \E i \in 1..Len(seq) : seq[i] = x

UserOption(kind, choices, yielding, value) ==
    [kind |-> kind, choices |-> choices, yielding |-> yielding, value |-> value]

\* UserStringOption.validate_value
UserStringOption_validate_value(self, value) ==
    IF ~IsStr(value) THEN Raise("MesonException") ELSE Ok(value)

\* a variant of UserBooleanOption.validate_value with a bug: the string is
\* compared as written, without lower()
UserBooleanOption_validate_value_exact(self, value) ==
    IF IsBool(value) THEN Ok(value)
    ELSE IF ~IsStr(value) THEN Raise("MesonException")
    ELSE IF value.str = s_true THEN Ok(PyBool(TRUE))
    ELSE IF value.str = s_false THEN Ok(PyBool(FALSE))
    ELSE Raise("MesonException")

\* UserBooleanOption.validate_value
UserBooleanOption_validate_value(self, value) ==
    IF IsBool(value) THEN Ok(value)
    ELSE IF ~IsStr(value) THEN Raise("MesonException")
    ELSE IF lower(value.str) = s_true THEN Ok(PyBool(TRUE))
    ELSE IF lower(value.str) = s_false THEN Ok(PyBool(FALSE))
    ELSE Raise("MesonException")

\* UserComboOption.validate_value
UserComboOption_validate_value(self, value) ==
    IF ~py_in(value, self.choices) THEN Raise("MesonException") ELSE Ok(value)

\* the value of a Python int; a bool is an int (True is 1, False is 0)
number(x) == IF IsBool(x) THEN (IF x.bool THEN 1 ELSE 0) ELSE x.int

\* a == b for Python objects: numbers compare by value, whatever their type
py_eq(a, b) ==
    IF (IsInt(a) \/ IsBool(a)) /\ (IsInt(b) \/ IsBool(b)) THEN number(a) = number(b)
    ELSE a = b

DigitChars == <<"0", "1", "2", "3", "4", "5", "6", "7", "8", "9">>
is_digit(c, base) == \E i \in 1..base : DigitChars[i] = c
digit_value(c) == (CHOOSE i \in 1..10 : DigitChars[i] = c) - 1

\* the number written by the digits ds in the base, most significant first
RECURSIVE digits_value(_, _, _)
digits_value(ds, base, acc) ==
    IF ds = <<>> THEN acc
    ELSE digits_value(Tail(ds), base, acc * base + digit_value(ds[1]))

\* int(valuestring, base) for base 8 and 10: blanks around the number, a
\* sign, the prefix 0o for base 8 and single underscores between digits are
\* accepted; Ok(the int) or ValueError
int_(valuestring, base) ==
    With(strip(valuestring), LAMBDA s :
    With(s # <<>> /\ s[1] \in {"+", "-"}, LAMBDA signed :
    With(IF signed THEN Tail(s) ELSE s, LAMBDA body0 :
    With(base = 8 /\ Len(body0) >= 2 /\ body0[1] = "0" /\ body0[2] \in {"o", "O"},
         LAMBDA prefixed :
    With(IF prefixed THEN SubSeq(body0, 3, Len(body0)) ELSE body0, LAMBDA body :
    With(SelectSeq(body, LAMBDA c : c # "_"), LAMBDA ds :
        IF \/ ds = <<>>
           \/ \E i \in 1..Len(ds) : ~is_digit(ds[i], base)
           \/ body[Len(body)] = "_"
           \/ (~prefixed /\ body[1] = "_")
           \/ \E i \in 1..(Len(body) - 1) : body[i] = "_" /\ body[i + 1] = "_"
        THEN Raise("ValueError")
        ELSE Ok(PyInt((IF signed /\ s[1] = "-" THEN -1 ELSE 1)
                      * digits_value(ds, base, 0)))))))))

\* the octal digits of n >= 0, most significant first
RECURSIVE oct_digits(_)
oct_digits(n) ==
    IF n < 8 THEN <<DigitChars[n + 1]>>
    ELSE Append(oct_digits(n \div 8), DigitChars[(n % 8) + 1])

\* format(value, '04o'): octal, padded with zeros after the sign to width 4
format_04o(value) ==
    With(oct_digits(IF value < 0 THEN -value ELSE value), LAMBDA ds :
    With(IF value < 0 THEN <<"-">> ELSE <<>>, LAMBDA sign :
        sign \o [i \in 1..(IF Len(sign) + Len(ds) >= 4 THEN 0
                           ELSE 4 - Len(sign) - Len(ds)) |-> "0"] \o ds))

\* UserIntegerOption(description, (min_value, max_value, value)): the bounds
\* are None or an int
UserIntegerOption(min_value, max_value, yielding, value) ==
    [kind |-> "integer", choices |-> <<>>, yielding |-> yielding, value |-> value,
     min_value |-> min_value, max_value |-> max_value]

s_preserve == <<"p", "r", "e", "s", "e", "r", "v", "e">>

\* UserUmaskOption(description, value): an integer option with the bounds
\* (0, 0o777)
UserUmaskOption(yielding, value) ==
    [kind |-> "umask", choices |-> <<>>, yielding |-> yielding, value |-> value,
     min_value |-> PyInt(0), max_value |-> PyInt(511)]

\* a variant of toint with a bug: a umask is parsed in base 10
toint_decimal(self, valuestring) ==
    With(int_(valuestring, 10), LAMBDA r :
        IF Raised(r) THEN Raise("MesonException") ELSE r)

\* UserIntegerOption.toint and UserUmaskOption.toint
toint(self, valuestring) ==
    With(int_(valuestring, IF self.kind = "umask" THEN 8 ELSE 10), LAMBDA r :
        IF Raised(r) THEN Raise("MesonException") ELSE r)

\* a variant of UserIntegerOption.validate_value with a bug: the bounds
\* themselves are rejected
UserIntegerOption_validate_value_strict(self, value0) ==
    With(IF IsStr(value0) THEN toint(self, value0.str) ELSE Ok(value0), LAMBDA value :
        IF Raised(value) THEN value
        ELSE IF ~IsInt(value.ok) /\ ~IsBool(value.ok) THEN Raise("MesonException")
        ELSE IF ~IsNone(self.min_value) /\ number(value.ok) <= self.min_value.int
             THEN Raise("MesonException")
        ELSE IF ~IsNone(self.max_value) /\ number(value.ok) >= self.max_value.int
             THEN Raise("MesonException")
        ELSE value)

\* UserIntegerOption.validate_value
UserIntegerOption_validate_value(self, value0) ==
    With(IF IsStr(value0) THEN toint(self, value0.str) ELSE Ok(value0), LAMBDA value :
        IF Raised(value) THEN value
        ELSE IF ~IsInt(value.ok) /\ ~IsBool(value.ok) THEN Raise("MesonException")
        ELSE IF ~IsNone(self.min_value) /\ number(value.ok) < self.min_value.int
             THEN Raise("MesonException")
        ELSE IF ~IsNone(self.max_value) /\ number(value.ok) > self.max_value.int
             THEN Raise("MesonException")
        ELSE value)

\* UserUmaskOption.validate_value
UserUmaskOption_validate_value(self, value) ==
    IF IsNone(value) \/ value = PyStr(s_preserve) THEN Ok(PyStr(s_preserve))
    ELSE UserIntegerOption_validate_value(self, value)

\* UserOption.printable_value and UserUmaskOption.printable_value
printable_value(self) ==
    IF self.kind = "umask" /\ self.value # PyStr(s_preserve)
    THEN PyStr(format_04o(number(self.value)))
    ELSE self.value

\* one element of a list display: a quoted string without quotes inside it,
\* a decimal number, the names True, False and None; Ok(the object), ValueError
\* for another name, SyntaxError for anything else
literal_element(e) ==
    IF Len(e) >= 2 /\ e[1] \in {"'", "\""} /\ e[Len(e)] = e[1]
       /\ \A i \in 2..(Len(e) - 1) : e[i] # e[1]
    THEN Ok(PyStr(SubSeq(e, 2, Len(e) - 1)))
    ELSE IF e # <<>> /\ \A i \in 1..Len(e) : is_digit(e[i], 10)
         THEN IF Len(e) > 1 /\ e[1] = "0" /\ \E i \in 1..Len(e) : e[i] # "0"
              THEN Raise("SyntaxError")
              ELSE Ok(PyInt(digits_value(e, 10, 0)))
    ELSE IF e = <<"T", "r", "u", "e">> THEN Ok(PyBool(TRUE))
    ELSE IF e = <<"F", "a", "l", "s", "e">> THEN Ok(PyBool(FALSE))
    ELSE IF e = <<"N", "o", "n", "e">> THEN Ok(None)
    ELSE IF e # <<>> /\ \A i \in 1..Len(e) :
                           \E j \in 1..26 : e[i] \in {lower_case[j], upper_case[j]}
         THEN Raise("ValueError")
    ELSE Raise("SyntaxError")

\* ast.literal_eval(value) for a value that starts with '[': a list display
\* whose elements hold no comma; Ok(the list), ValueError or SyntaxError
literal_eval(value) ==
    IF value[Len(value)] # "]" \/ Len(value) < 2 THEN Raise("SyntaxError")
    ELSE With(SubSeq(value, 2, Len(value) - 1), LAMBDA inner :
         IF strip(inner) = <<>> THEN Ok(<<>>)
         ELSE With(split(inner, ","), LAMBDA parts0 :
              \* a trailing comma closes the display
              With(IF Len(parts0) > 1 /\ strip(parts0[Len(parts0)]) = <<>>
                   THEN SubSeq(parts0, 1, Len(parts0) - 1) ELSE parts0, LAMBDA parts :
              With([i \in 1..Len(parts) |-> literal_element(strip(parts[i]))],
                   LAMBDA elements :
                  IF \E i \in 1..Len(elements) : elements[i] = Raise("SyntaxError")
                  THEN Raise("SyntaxError")
                  ELSE IF \E i \in 1..Len(elements) : Raised(elements[i])
                       THEN Raise("ValueError")
                  ELSE Ok([i \in 1..Len(elements) |-> elements[i].ok])))))

\* UserArrayOption.allow_dups; False unless the constructor was given it
allow_dups(self) == IF "allow_dups" \in DOMAIN self THEN self.allow_dups ELSE FALSE

\* UserArrayOption(description, value, allow_dups=..., choices=...)
UserArrayOption(choices, dups, yielding, value) ==
    [kind |-> "array", choices |-> choices, yielding |-> yielding, value |-> value,
     allow_dups |-> dups]

\* newvalue of UserArrayOption.validate_value (user_input=True, split_args
\* off): Ok(the list), or the exception raised before it is bound
UserArrayOption_newvalue(self, value) ==
    IF IsStr(value)
    THEN IF startswith(value.str, <<"[">>)
         THEN With(literal_eval(value.str), LAMBDA r :
                  IF r = Raise("ValueError") THEN Raise("MesonException") ELSE r)
         ELSE IF value.str = <<>> THEN Ok(<<>>)
         ELSE With(split(value.str, ","), LAMBDA parts :
                  Ok([i \in 1..Len(parts) |-> PyStr(strip(parts[i]))]))
    ELSE IF IsList(value) THEN Ok(value.list)
    \* the message formats newvalue, which is not bound on this branch
    ELSE Raise("UnboundLocalError")

\* mlog.deprecation is called: the list holds an element twice and the
\* option does not allow it
UserArrayOption_deprecation(self, value) ==
    With(UserArrayOption_newvalue(self, value), LAMBDA newvalue :
        /\ ~Raised(newvalue)
        /\ ~allow_dups(self)
        /\ \E i, j \in 1..Len(newvalue.ok) : i # j /\ py_eq(newvalue.ok[i], newvalue.ok[j]))

\* a variant of UserArrayOption.validate_value with a bug: a list that
\* holds an element twice is an error
UserArrayOption_validate_value_nodups(self, value) ==
    With(UserArrayOption_newvalue(self, value), LAMBDA newvalue :
        IF Raised(newvalue) THEN newvalue
        ELSE IF UserArrayOption_deprecation(self, value) THEN Raise("MesonException")
        ELSE IF \E i \in 1..Len(newvalue.ok) : ~IsStr(newvalue.ok[i])
             THEN Raise("MesonException")
        ELSE IF self.choices # <<>>
                /\ \E i \in 1..Len(newvalue.ok) : ~py_in(newvalue.ok[i], self.choices)
             THEN Raise("MesonException")
        ELSE Ok(PyList(newvalue.ok)))

\* UserArrayOption.validate_value
UserArrayOption_validate_value(self, value) ==
    With(UserArrayOption_newvalue(self, value), LAMBDA newvalue :
        IF Raised(newvalue) THEN newvalue
        ELSE IF \E i \in 1..Len(newvalue.ok) : ~IsStr(newvalue.ok[i])
             THEN Raise("MesonException")
        ELSE IF self.choices # <<>>
                /\ \E i \in 1..Len(newvalue.ok) : ~py_in(newvalue.ok[i], self.choices)
             THEN Raise("MesonException")
        ELSE Ok(PyList(newvalue.ok)))

\* validate_value, dispatched on the option's class
validate_value(self, value) ==
    CASE self.kind = "string" -> UserStringOption_validate_value(self, value)
      [] self.kind = "boolean" -> UserBooleanOption_validate_value(self, value)
      [] self.kind = "combo" -> UserComboOption_validate_value(self, value)
      [] self.kind = "array" -> UserArrayOption_validate_value(self, value)
      [] self.kind = "integer" -> UserIntegerOption_validate_value(self, value)
      [] self.kind = "umask" -> UserUmaskOption_validate_value(self, value)

\* a variant of set_value with a bug: the raw value is stored without
\* validation
set_value_unvalidated(self, newvalue) == Ok([self EXCEPT !.value = newvalue])

\* UserOption.set_value: Ok(the option after the call) or the exception,
\* in which case self.value was not assigned
set_value(self, newvalue) ==
    With(validate_value(self, newvalue), LAMBDA r :
        IF Raised(r) THEN r ELSE Ok([self EXCEPT !.value = r.ok]))

(***************************************************************************)
(* The builtin option tables.  The model keeps the options the checked     *)
(* properties read: the prefix, one prefix-relative directory, one         *)
(* directory outside the prefix, the buildtype triple, a yielding and two  *)
(* non-yielding core options and one per-machine option.                   *)
(***************************************************************************)
s_usr_local == <<"/", "u", "s", "r", "/", "l", "o", "c", "a", "l">>
s_usr == <<"/", "u", "s", "r">>
s_lib == <<"l", "i", "b">>
s_lib64 == <<"l", "i", "b", "6", "4">>
s_etc == <<"e", "t", "c">>
s_slash_etc == <<"/", "e", "t", "c">>
s_plain == <<"p", "l", "a", "i", "n">>
s_debugoptimized == <<"d", "e", "b", "u", "g", "o", "p", "t", "i", "m", "i", "z", "e", "d">>
s_release == <<"r", "e", "l", "e", "a", "s", "e">>
s_minsize == <<"m", "i", "n", "s", "i", "z", "e">>
s_custom == <<"c", "u", "s", "t", "o", "m">>
s_0 == <<"0">>
s_g == <<"g">>
s_1 == <<"1">>
s_2 == <<"2">>
s_3 == <<"3">>
s_s == <<"s">>

\* the module-level version of the running tool
version == <<"0", ".", "5", "5", ".", "9", "9", "9">>

\* mesonlib.default_prefix() and default_libdir() on a posix host
default_prefix == s_usr_local
default_libdir == s_lib64

BuiltinOption(opt_type, default, yielding, choices) ==
    [opt_type |-> opt_type, default |-> default, yielding |-> yielding,
     choices |-> choices]

BUILTIN_DIR_OPTIONS ==
    (s_prefix :> BuiltinOption("string", PyStr(default_prefix), TRUE, <<>>)) @@
    (s_libdir :> BuiltinOption("string", PyStr(default_libdir), TRUE, <<>>)) @@
    (s_sysconfdir :> BuiltinOption("string", PyStr(s_etc), TRUE, <<>>))

BUILTIN_CORE_OPTIONS ==
    (s_buildtype :> BuiltinOption("combo", PyStr(s_debug), TRUE,
        <<PyStr(s_plain), PyStr(s_debug), PyStr(s_debugoptimized),
          PyStr(s_release), PyStr(s_minsize), PyStr(s_custom)>>)) @@
    (s_debug :> BuiltinOption("boolean", PyBool(TRUE), TRUE, <<>>)) @@
    (s_optimization :> BuiltinOption("combo", PyStr(s_0), TRUE,
        <<PyStr(s_0), PyStr(s_g), PyStr(s_1), PyStr(s_2), PyStr(s_3),
          PyStr(s_s)>>)) @@
    (s_strip :> BuiltinOption("boolean", PyBool(FALSE), TRUE, <<>>)) @@
    (s_warning_level :> BuiltinOption("combo", PyStr(s_1), FALSE,
        <<PyStr(s_0), PyStr(s_1), PyStr(s_2), PyStr(s_3)>>)) @@
    (s_werror :> BuiltinOption("boolean", PyBool(FALSE), FALSE, <<>>))

BUILTIN_OPTIONS == BUILTIN_DIR_OPTIONS @@ BUILTIN_CORE_OPTIONS

BUILTIN_OPTIONS_PER_MACHINE ==
    (s_pkg_config_path :> BuiltinOption("array", PyList(<<>>), TRUE, <<>>))

\* builtin_dir_noprefix_options: name -> prefix -> default
builtin_dir_noprefix_options ==
    (s_sysconfdir :> (s_usr :> PyStr(s_slash_etc)))

\* compilers.base_options: the names of the base options
base_options == {s_b_lto}

\* BuiltinOption.prefixed_default
prefixed_default(self, name, prefix) ==
    IF self.opt_type \in {"combo", "integer"} THEN self.default
    ELSE IF name \in DOMAIN builtin_dir_noprefix_options
            /\ prefix \in DOMAIN builtin_dir_noprefix_options[name]
         THEN builtin_dir_noprefix_options[name][prefix]
         ELSE self.default

\* BuiltinOption.init_option: the option object built by opt_type(...)
init_option(self, name, value, prefix) ==
    With(UserOption(self.opt_type,
                    IF self.opt_type = "boolean"
                    THEN <<PyBool(TRUE), PyBool(FALSE)>> ELSE self.choices,
                    self.yielding, None), LAMBDA o :
        [o EXCEPT !.value =
            validate_value(o, IF IsNone(value)
                              THEN prefixed_default(self, name, prefix)
                              ELSE value).ok])

(***************************************************************************)
(* Paths: os.path and pathlib.PurePath on a posix host.  A PurePath is     *)
(* [root, parts]: root is "/" or "", parts are the components after it.   *)
(***************************************************************************)
s_dotdot == <<".", ".">>
s_tilde == <<"~">>
s_home == <<"/", "h">>

\* os.path.expanduser: a leading "~" becomes the home directory
expanduser(path) ==
    IF startswith(path, s_tilde) /\ (Len(path) = 1 \/ path[2] = "/")
    THEN s_home \o Tail(path)
    ELSE path

\* os.path.isabs
isabs(path) == startswith(path, <<"/">>)

\* PurePath(s): empty and "." components are dropped
PurePath(str) ==
    [root |-> IF startswith(str, <<"/">>) THEN <<"/">> ELSE <<>>,
     parts |-> SelectSeq(split(str, "/"), LAMBDA c : c # <<>> /\ c # <<".">>)]

\* str(path) and path.as_posix()
as_posix(path) ==
    IF path.root = <<>> /\ path.parts = <<>> THEN <<".">>
    ELSE path.root \o join(<<"/">>, path.parts)

is_absolute(path) == path.root # <<>>

\* path.relative_to(other): Ok(relative path) or ValueError
relative_to(path, other) ==
    With(PurePath(other), LAMBDA o :
        IF path.root = o.root /\ Len(o.parts) <= Len(path.parts)
           /\ SubSeq(path.parts, 1, Len(o.parts)) = o.parts
        THEN Ok([root |-> <<>>,
                 parts |-> SubSeq(path.parts, Len(o.parts) + 1, Len(path.parts))])
        ELSE Raise("ValueError"))

\* CoreData.sanitize_prefix
sanitize_prefix(prefix0) ==
    With(expanduser(prefix0), LAMBDA prefix :
        IF ~isabs(prefix) THEN Raise("MesonException")
        ELSE IF endswith(prefix, <<"/">>) \/ endswith(prefix, <<"\\">>)
             THEN IF Len(prefix) = 3 /\ prefix[2] = ":" THEN Ok(prefix)
                  ELSE IF Len(prefix) = 1 THEN Ok(prefix)
                  ELSE Ok(SubSeq(prefix, 1, Len(prefix) - 1))
        ELSE Ok(prefix))

\* CoreData.sanitize_dir_option_value(prefix, option, value):
\* Ok(sanitized value) or MesonException
sanitize_dir_option_value(prefix, option, value) ==
    IF ~IsStr(value) THEN Ok(value)
    ELSE With(PurePath(value.str), LAMBDA path :
        IF endswith(option, <<"d", "i", "r">>) /\ is_absolute(path)
           /\ option \notin DOMAIN builtin_dir_noprefix_options
        THEN With(relative_to(path, prefix), LAMBDA rel :
                 IF Raised(rel) THEN Raise("MesonException")
                 ELSE IF contains(as_posix(rel.ok), s_dotdot)
                      THEN Raise("MesonException")
                 ELSE Ok(PyStr(as_posix(rel.ok))))
        ELSE Ok(PyStr(as_posix(path))))

(***************************************************************************)
(* CoreData.  A dict is a function from its keys (str) to its values.      *)
(* An option object held by the store is named by its place:               *)
(* [group, machine, lang, key].                                            *)
(***************************************************************************)
EmptyDict == [k \in {} |-> None]

\* builtin_options_libdir_cross_fixup: BUILTIN_OPTIONS as __init__ leaves it
builtin_options_libdir_cross_fixup(cross_files) ==
    IF cross_files
    THEN [BUILTIN_OPTIONS EXCEPT ![s_libdir].default = PyStr(s_lib)]
    ELSE BUILTIN_OPTIONS

\* CoreData.add_builtin_option: the opts_map after the call
add_builtin_option(opts_map, key, opt, subproject) ==
    IF subproject # <<>>
    THEN IF opt.yielding THEN opts_map
         ELSE ((subproject \o <<":">> \o key) :>
                  init_option(opt, key, opts_map[key].value, default_prefix))
              @@ opts_map
    ELSE (key :> init_option(opt, key, None, default_prefix)) @@ opts_map

\* add_builtin_option for every entry of a table
RECURSIVE add_builtin_options(_, _, _, _)
add_builtin_options(opts_map, table, names, subproject) ==
    IF names = {} THEN opts_map
    ELSE LET key == CHOOSE k \in names : TRUE
         IN  add_builtin_options(
                 add_builtin_option(opts_map, key, table[key], subproject),
                 table, names \ {key}, subproject)

\* CoreData.init_builtins
init_builtins(self, table, subproject) ==
    [self EXCEPT
        !.builtins = add_builtin_options(@, table, DOMAIN table, subproject),
        !.builtins_per_machine =
            [m \in MachineChoice |->
                add_builtin_options(@[m], BUILTIN_OPTIONS_PER_MACHINE,
                    DOMAIN BUILTIN_OPTIONS_PER_MACHINE, subproject)]]

\* CoreData.__init__
CoreData(cross_files) ==
    init_builtins(
        [version |-> version,
         builtins |-> EmptyDict,
         builtins_per_machine |-> [m \in MachineChoice |-> EmptyDict],
         backend_options |-> EmptyDict,
         user_options |-> EmptyDict,
         compiler_options |-> [m \in MachineChoice |-> EmptyDict],
         base_options |-> EmptyDict,
         cross_files |-> cross_files],
        builtin_options_libdir_cross_fixup(cross_files), s_empty)

\* CoreData.is_cross_build()
is_cross_build(self) == self.cross_files

Place(group, machine, lang, key) ==
    [group |-> group, machine |-> machine, lang |-> lang, key |-> key]

\* the dict a place lies in
DictOf(self, place) ==
    CASE place.group = "builtins" -> self.builtins
      [] place.group = "builtins_per_machine" -> self.builtins_per_machine[place.machine]
      [] place.group = "base_options" -> self.base_options
      [] place.group = "user_options" -> self.user_options
      [] place.group = "backend_options" -> self.backend_options
      [] place.group = "compiler_options" ->
             self.compiler_options[place.machine][place.lang]

\* the option object at a place
At(self, place) == DictOf(self, place)[place.key]

\* the store after the object at a place was replaced by opt
Put(self, place, opt) ==
    CASE place.group = "builtins" ->
             [self EXCEPT !.builtins[place.key] = opt]
      [] place.group = "builtins_per_machine" ->
             [self EXCEPT !.builtins_per_machine[place.machine][place.key] = opt]
      [] place.group = "base_options" ->
             [self EXCEPT !.base_options[place.key] = opt]
      [] place.group = "user_options" ->
             [self EXCEPT !.user_options[place.key] = opt]
      [] place.group = "backend_options" ->
             [self EXCEPT !.backend_options[place.key] = opt]
      [] place.group = "compiler_options" ->
             [self EXCEPT
                 !.compiler_options[place.machine][place.lang][place.key] = opt]

\* a variant of classify_argument with a bug: the language is tested before
\* the base option table
classify_argument_language_first(key) ==
    LET all_builtins == DOMAIN BUILTIN_OPTIONS \cup DOMAIN BUILTIN_OPTIONS_PER_MACHINE
                        \cup DOMAIN builtin_dir_noprefix_options
    IN  IF ~IsNone(key.language) THEN Ok("COMPILER")
        ELSE IF key.name \in base_options
        THEN IF assertions /\ key.machine # HOST
             THEN Raise("AssertionError") ELSE Ok("BASE")
        ELSE IF key.name \in all_builtins THEN Ok("BUILTIN")
        ELSE IF startswith(key.name, s_backend_) THEN Ok("BACKEND")
        ELSE IF assertions /\ key.machine # HOST
             THEN Raise("AssertionError") ELSE Ok("USER")

\* ArgumentGroup of a key, or AssertionError
classify_argument(key) ==
    LET all_builtins == DOMAIN BUILTIN_OPTIONS \cup DOMAIN BUILTIN_OPTIONS_PER_MACHINE
                        \cup DOMAIN builtin_dir_noprefix_options
    IN  IF key.name \in base_options
        THEN IF assertions /\ key.machine # HOST
             THEN Raise("AssertionError") ELSE Ok("BASE")
        ELSE IF ~IsNone(key.language) THEN Ok("COMPILER")
        ELSE IF key.name \in all_builtins THEN Ok("BUILTIN")
        ELSE IF startswith(key.name, s_backend_) THEN Ok("BACKEND")
        ELSE IF assertions /\ key.machine # HOST
             THEN Raise("AssertionError") ELSE Ok("USER")

\* CoreData.get_builtin_option_raw: Ok(the place of the option) or the
\* exception raised
get_builtin_option_raw(self, opt0) ==
    With(opt0.name \in DOMAIN BUILTIN_OPTIONS_PER_MACHINE, LAMBDA per_machine :
    With(IF per_machine THEN self.builtins_per_machine[opt0.machine]
         ELSE self.builtins, LAMBDA source :
    With(IF per_machine THEN as_host(opt0) ELSE opt0, LAMBDA opt :
    With(Place(IF per_machine THEN "builtins_per_machine" ELSE "builtins",
               IF per_machine THEN opt0.machine ELSE HOST, s_empty, __str__(opt)),
         LAMBDA place :
    With(__str__(as_root(opt)), LAMBDA rootk :
        IF assertions /\ ~IsNone(opt0.language) THEN Raise("AssertionError")
        ELSE IF assertions /\ ~per_machine /\ opt0.machine # HOST
             THEN Raise("AssertionError")
        ELSE IF place.key \in DOMAIN source /\ ~source[place.key].yielding
             THEN Ok(place)
        ELSE IF rootk \in DOMAIN source
             THEN Ok([place EXCEPT !.key = rootk])
        ELSE Raise("MesonException"))))))

\* a call's effect: the store after it and its outcome
R(cd, res) == [cd |-> cd, res |-> res]

\* CoreData.get_any_option: the place of the option, or the exception;
\* compiler_options[machine] is a defaultdict(dict), so looking a language
\* up inserts it
get_any_option(self, key) ==
    With(classify_argument(key), LAMBDA classifier :
        IF Raised(classifier) THEN R(self, classifier)
        ELSE CASE classifier.ok = "BASE" ->
                 IF key.name \in DOMAIN self.base_options
                 THEN R(self, Ok(Place("base_options", HOST, s_empty, key.name)))
                 ELSE R(self, Raise("KeyError"))
          [] classifier.ok = "USER" ->
                 With(__str__(key), LAMBDA k :
                     IF k \in DOMAIN self.user_options
                     THEN R(self, Ok(Place("user_options", HOST, s_empty, k)))
                     ELSE R(self, Raise("KeyError")))
          [] classifier.ok = "BUILTIN" ->
                 R(self, get_builtin_option_raw(self, key))
          [] classifier.ok = "BACKEND" ->
                 IF key.name \in DOMAIN self.backend_options
                 THEN R(self, Ok(Place("backend_options", HOST, s_empty, key.name)))
                 ELSE R(self, Raise("KeyError"))
          [] classifier.ok = "COMPILER" ->
                 With(IF key.language.str \in DOMAIN self.compiler_options[key.machine]
                      THEN self
                      ELSE [self EXCEPT !.compiler_options[key.machine] =
                                (key.language.str :> EmptyDict) @@ @], LAMBDA self1 :
                     IF key.name \in DOMAIN
                            self1.compiler_options[key.machine][key.language.str]
                     THEN R(self1, Ok(Place("compiler_options", key.machine,
                                            key.language.str, key.name)))
                     ELSE R(self1, Raise("KeyError"))))

\* get_builtin_option_raw(key).set_value(value): the low-level setter
set_raw(self, key, value) ==
    With(get_builtin_option_raw(self, key), LAMBDA place :
        IF Raised(place) THEN R(self, place)
        ELSE With(set_value(At(self, place.ok), value), LAMBDA o :
                 IF Raised(o) THEN R(self, o)
                 ELSE R(Put(self, place.ok, o.ok), Ok(None))))

\* CoreData.get_builtin_option for a key or its string form: Ok(value)
get_builtin_option(self, key) ==
    With(get_builtin_option_raw(self, key), LAMBDA place :
        IF Raised(place) THEN place ELSE Ok(At(self, place.ok).value))

get_builtin_option_str(self, raw) ==
    With(from_string(raw), LAMBDA key :
        IF Raised(key) THEN key ELSE get_builtin_option(self, key.ok))

\* a variant of set_others_from_buildtype with a bug: the dependent options
\* are not written
set_others_from_buildtype_skipped(self, value) == R(self, Ok(None))

\* set_others_from_buildtype: <<opt, debug>> of the if chain on value, <<>>
\* in its else branch
buildtype_row(value) ==
    CASE value = PyStr(s_plain) -> <<s_0, FALSE>>
      [] value = PyStr(s_debug) -> <<s_0, TRUE>>
      [] value = PyStr(s_debugoptimized) -> <<s_2, TRUE>>
      [] value = PyStr(s_release) -> <<s_3, FALSE>>
      [] value = PyStr(s_minsize) -> <<s_s, TRUE>>
      [] OTHER -> <<>>

\* CoreData.set_others_from_buildtype
set_others_from_buildtype(self, value) ==
    With(buildtype_row(value), LAMBDA row :
        IF row = <<>>
        THEN IF assertions /\ value # PyStr(s_custom)
             THEN R(self, Raise("AssertionError")) ELSE R(self, Ok(None))
        ELSE With(set_raw(self, Key(s_optimization), PyStr(row[1])), LAMBDA r1 :
                 IF Raised(r1.res) THEN r1
                 ELSE set_raw(r1.cd, Key(s_debug), PyBool(row[2]))))

\* truth value of a Python object
truthy(x) ==
    CASE IsBool(x) -> x.bool
      [] IsStr(x) -> x.str # <<>>
      [] IsList(x) -> x.list # <<>>
      [] IsInt(x) -> x.int # 0
      [] IsNone(x) -> FALSE

\* a variant of set_buildtype_from_others with a bug: the else branch
\* keeps the buildtype instead of storing 'custom'
set_buildtype_from_others_keeps(self) ==
    LET o == self.builtins[s_optimization].value
        d == truthy(self.builtins[s_debug].value)
        mode == IF o = PyStr(s_0) /\ ~d THEN PyStr(s_plain)
                ELSE IF o = PyStr(s_0) /\ d THEN PyStr(s_debug)
                ELSE IF o = PyStr(s_2) /\ d THEN PyStr(s_debugoptimized)
                ELSE IF o = PyStr(s_3) /\ ~d THEN PyStr(s_release)
                ELSE IF o = PyStr(s_s) /\ d THEN PyStr(s_minsize)
                ELSE self.builtins[s_buildtype].value
    IN  R([self EXCEPT !.builtins[s_buildtype].value = mode], Ok(None))

\* set_buildtype_from_others: mode of the if chain on opt and debug
buildtype_mode(o, d) ==
    IF o = PyStr(s_0) /\ ~d THEN s_plain
    ELSE IF o = PyStr(s_0) /\ d THEN s_debug
    ELSE IF o = PyStr(s_2) /\ d THEN s_debugoptimized
    ELSE IF o = PyStr(s_3) /\ ~d THEN s_release
    ELSE IF o = PyStr(s_s) /\ d THEN s_minsize
    ELSE s_custom

\* CoreData.set_buildtype_from_others
set_buildtype_from_others(self) ==
    With(get_builtin_option_str(self, s_optimization), LAMBDA opt :
    With(get_builtin_option_str(self, s_debug), LAMBDA debug :
        IF Raised(opt) THEN R(self, opt)
        ELSE IF Raised(debug) THEN R(self, debug)
        ELSE set_raw(self, Key(s_buildtype),
                     PyStr(buildtype_mode(opt.ok, truthy(debug.ok))))))

\* a variant of set_builtin_option with a bug: a new optimization does not
\* recompute buildtype
set_builtin_option_debug_only(self, key, value) ==
    With(set_raw(self, key, value), LAMBDA r :
        IF Raised(r.res) THEN r
        ELSE IF key.name = s_buildtype THEN set_others_from_buildtype(r.cd, value)
        ELSE IF key.name = s_debug THEN set_buildtype_from_others(r.cd)
        ELSE r)

\* CoreData.set_builtin_option
set_builtin_option(self, key, value) ==
    With(set_raw(self, key, value), LAMBDA r :
        IF Raised(r.res) THEN r
        ELSE IF key.name = s_buildtype THEN set_others_from_buildtype(r.cd, value)
        ELSE IF key.name \in {s_debug, s_optimization}
             THEN set_buildtype_from_others(r.cd)
        ELSE r)

\* CoreData.set_any_option
set_any_option(self, key, value) ==
    With(classify_argument(key), LAMBDA classifier :
        IF Raised(classifier) THEN R(self, classifier)
        ELSE IF classifier.ok = "BUILTIN" THEN set_builtin_option(self, key, value)
        ELSE With(get_any_option(self, key), LAMBDA g :
                 IF Raised(g.res) THEN g
                 ELSE With(set_value(At(g.cd, g.res.ok), value), LAMBDA o :
                          IF Raised(o) THEN R(g.cd, o)
                          ELSE R(Put(g.cd, g.res.ok, o.ok), Ok(None)))))

\* the value a caller reads through get_any_option: Ok(value) or the exception
get(self, key) ==
    With(get_any_option(self, key), LAMBDA g :
        IF Raised(g.res) THEN g.res ELSE Ok(At(g.cd, g.res.ok).value))

(***************************************************************************)
(* set_options.  The options argument is an ordered dict: a sequence of    *)
(* <<key, value>> pairs with distinct keys, in insertion order.            *)
(***************************************************************************)
dict_has(d, k) == \E i \in 1..Len(d) : d[i][1] = k
dict_get(d, k) == d[CHOOSE i \in 1..Len(d) : d[i][1] = k][2]
\* d[k] = v: an existing key keeps its position
dict_set(d, k, v) ==
    IF dict_has(d, k)
    THEN [i \in 1..Len(d) |-> IF d[i][1] = k THEN <<k, v>> ELSE d[i]]
    ELSE Append(d, <<k, v>>)

\* CoreData.strip_build_option_names
RECURSIVE strip_build_option_names(_, _)
strip_build_option_names(options, res) ==
    IF options = <<>> THEN res
    ELSE strip_build_option_names(Tail(options),
             dict_set(res, IF options[1][1].machine = BUILD
                           THEN as_host(options[1][1]) ELSE options[1][1],
                      options[1][2]))

\* the dict [k |-> source[k] after set_value(host[k].value)] of
\* copy_build_options_from_regular_ones, for the keys the loop assigns
mirror(build, host) ==
    [k \in DOMAIN build |->
        IF k \in DOMAIN host THEN set_value(build[k], host[k].value).ok
        ELSE build[k]]

\* a variant of copy_build_options_from_regular_ones with a bug: the
\* compiler options are not copied
copy_build_options_builtins_only(self) ==
    IF assertions /\ is_cross_build(self) THEN R(self, Raise("AssertionError"))
    ELSE R([self EXCEPT !.builtins_per_machine[BUILD] =
                mirror(self.builtins_per_machine[BUILD],
                       self.builtins_per_machine[HOST])], Ok(None))

\* CoreData.copy_build_options_from_regular_ones
copy_build_options_from_regular_ones(self) ==
    LET bpm == self.builtins_per_machine
        co == self.compiler_options
        \* compiler_options.build[lang] inserts a missing language
        build_langs == [l \in DOMAIN co[HOST] \cup DOMAIN co[BUILD] |->
                           IF l \in DOMAIN co[BUILD] THEN co[BUILD][l] ELSE EmptyDict]
    IN  IF assertions /\ is_cross_build(self) THEN R(self, Raise("AssertionError"))
        ELSE IF \E k \in DOMAIN bpm[HOST] : k \notin DOMAIN bpm[BUILD]
             THEN R(self, Raise("KeyError"))
        ELSE IF \/ \E k \in DOMAIN bpm[HOST] :
                       Raised(set_value(bpm[BUILD][k], bpm[HOST][k].value))
                \/ \E l \in DOMAIN co[HOST] :
                       \E k \in DOMAIN co[HOST][l] \cap DOMAIN build_langs[l] :
                           Raised(set_value(build_langs[l][k], co[HOST][l][k].value))
             THEN R(self, Raise("MesonException"))
        ELSE R([self EXCEPT
                   !.builtins_per_machine[BUILD] = mirror(bpm[BUILD], bpm[HOST]),
                   !.compiler_options[BUILD] =
                       [l \in DOMAIN build_langs |->
                           IF l \in DOMAIN co[HOST]
                           THEN mirror(build_langs[l], co[HOST][l])
                           ELSE build_langs[l]]],
               Ok(None))

\* the loop of set_options over options[i..]: the store after it and
\* Ok(unknown_options) or the exception that left the loop
RECURSIVE apply_options(_, _, _, _)
apply_options(self, options, prefix, unknown_options) ==
    IF options = <<>> THEN R(self, Ok(unknown_options))
    ELSE With(options[1][1], LAMBDA k :
         With(IF k.name \in DOMAIN BUILTIN_DIR_OPTIONS
                 \/ k.name \in DOMAIN builtin_dir_noprefix_options
              THEN sanitize_dir_option_value(prefix, k.name, options[1][2])
              ELSE Ok(options[1][2]), LAMBDA v :
             IF k.name = s_prefix
             THEN apply_options(self, Tail(options), prefix, unknown_options)
             ELSE IF Raised(v) THEN R(self, v)
             ELSE With(set_any_option(self, k, v.ok), LAMBDA r :
                      IF r.res = Raise("KeyError")
                      THEN apply_options(r.cd, Tail(options), prefix,
                                         Append(unknown_options, __str__(k)))
                      ELSE IF Raised(r.res) THEN r
                      ELSE apply_options(r.cd, Tail(options), prefix,
                                         unknown_options))))

\* set_builtin_option(k, prefixed_default) for the noprefix directories
\* that the batch does not give
RECURSIVE set_noprefix_defaults(_, _, _, _)
set_noprefix_defaults(self, names, options, prefix) ==
    IF names = {} THEN R(self, Ok(None))
    ELSE With(CHOOSE n \in names : TRUE, LAMBDA key :
         With(IF dict_has(options, Key(key)) THEN R(self, Ok(None))
              ELSE set_builtin_option(self, Key(key),
                       prefixed_default(BUILTIN_OPTIONS[key], key, prefix)),
              LAMBDA r :
             IF Raised(r.res) THEN r
             ELSE set_noprefix_defaults(r.cd, names \ {key}, options, prefix)))

\* a variant of set_options with a bug: the options are processed against
\* the stored prefix and the prefix of the batch is stored after them
set_options_prefix_last(self, options0, subproject, warn_unknown) ==
    With(IF ~is_cross_build(self)
         THEN strip_build_option_names(options0, <<>>) ELSE options0, LAMBDA options :
    With(dict_has(options, Key(s_prefix)), LAMBDA given :
    With(IF ~given THEN Ok(self.builtins[s_prefix].value.str)
         ELSE sanitize_prefix(dict_get(options, Key(s_prefix)).str), LAMBDA prefix :
    With(IF Raised(prefix) THEN R(self, prefix)
         ELSE apply_options(self, options, self.builtins[s_prefix].value.str, <<>>),
         LAMBDA r3 :
    With(IF ~given \/ Raised(r3.res) THEN r3
         ELSE set_builtin_option(r3.cd, Key(s_prefix), PyStr(prefix.ok)), LAMBDA r1 :
    With(IF Raised(r1.res) \/ is_cross_build(self) THEN r1
         ELSE copy_build_options_from_regular_ones(r1.cd), LAMBDA r4 :
        IF Raised(r4.res) THEN r4
        ELSE R(r4.cd, Ok([unknown |-> r3.res.ok,
                          warned |-> r3.res.ok # <<>> /\ warn_unknown]))))))))

\* CoreData.set_options: Ok([unknown, warned]) or the exception
set_options(self, options0, subproject, warn_unknown) ==
    With(IF ~is_cross_build(self)
         THEN strip_build_option_names(options0, <<>>) ELSE options0, LAMBDA options :
    With(dict_has(options, Key(s_prefix)), LAMBDA given :
    \* prefix = self.sanitize_prefix(options[p]), or self.builtins['prefix'].value
    With(IF ~given THEN Ok(self.builtins[s_prefix].value.str)
         ELSE IF ~IsStr(dict_get(options, Key(s_prefix))) THEN Raise("TypeError")
         ELSE sanitize_prefix(dict_get(options, Key(s_prefix)).str), LAMBDA prefix :
    \* self.set_builtin_option(p, prefix)
    With(IF ~given \/ Raised(prefix) THEN R(self, prefix)
         ELSE set_builtin_option(self, Key(s_prefix), PyStr(prefix.ok)), LAMBDA r1 :
    \* for key in builtin_dir_noprefix_options
    With(IF ~given \/ Raised(r1.res) THEN r1
         ELSE set_noprefix_defaults(r1.cd, DOMAIN builtin_dir_noprefix_options,
                                    options, prefix.ok), LAMBDA r2 :
    \* for k, v in options.items()
    With(IF Raised(r2.res) THEN r2
         ELSE apply_options(r2.cd, options, prefix.ok, <<>>), LAMBDA r3 :
    \* if not self.is_cross_build(): copy_build_options_from_regular_ones()
    With(IF Raised(r3.res) \/ is_cross_build(self) THEN r3
         ELSE copy_build_options_from_regular_ones(r3.cd), LAMBDA r4 :
        IF Raised(r4.res) THEN r4
        ELSE R(r4.cd, Ok([unknown |-> r3.res.ok,
                          warned |-> r3.res.ok # <<>> /\ warn_unknown])))))))))

(***************************************************************************)
(* The build directory                                                     *)
(***************************************************************************)
filename == "coredata.dat"
prev_filename == "coredata.dat.prev"
\* a variant of save with a bug: the pickle is written straight into
\* coredata.dat
tempfilename_in_place == "coredata.dat"
tempfilename == "coredata.dat~"
FileNames == {filename, prev_filename, tempfilename}

\* a file that does not exist; an existing file is [bytes |-> <<...>>]
NoFile == [absent |-> TRUE]
exists(f) == "bytes" \in DOMAIN files[f]

(***************************************************************************)
(* Persistence: pickle, load and save.  A pickle is the sequence           *)
(* <<PROTO, class, state..., STOP>>; every proper prefix of it is a        *)
(* truncated file.                                                         *)
(***************************************************************************)
Fields == <<"version", "builtins", "builtins_per_machine", "backend_options",
            "user_options", "compiler_options", "base_options", "cross_files">>

\* pickle.dumps(obj) for a CoreData object
pickle_dumps(obj) ==
    <<"PROTO", "CoreData">> \o [i \in 1..Len(Fields) |-> obj[Fields[i]]] \o <<"STOP">>

\* the pickle of an object that is no CoreData, and one of a class that
\* the running tool no longer defines
pickle_of_dict == <<"PROTO", "dict", "STOP">>
pickle_of_removed_class == <<"PROTO", "Removed", "STOP">>

\* pickle.load(f): Ok(obj), or UnpicklingError / EOFError / AttributeError
pickle_load(bytes) ==
    IF Len(bytes) = 0 THEN Raise("EOFError")
    ELSE IF bytes[1] # "PROTO" THEN Raise("UnpicklingError")
    ELSE IF Len(bytes) = 1 THEN Raise("EOFError")
    ELSE IF bytes[2] = "Removed" THEN Raise("AttributeError")
    ELSE IF bytes[2] = "dict"
         THEN IF Len(bytes) = 3 THEN Ok([class |-> "dict"]) ELSE Raise("EOFError")
    ELSE IF Len(bytes) # Len(Fields) + 3 THEN Raise("EOFError")
    ELSE Ok([class |-> "CoreData",
             version |-> bytes[3], builtins |-> bytes[4],
             builtins_per_machine |-> bytes[5], backend_options |-> bytes[6],
             user_options |-> bytes[7], compiler_options |-> bytes[8],
             base_options |-> bytes[9], cross_files |-> bytes[10]])

\* v.split('.')[0:2]
major_minor(v) ==
    LET parts == split(v, ".")
    IN  SubSeq(parts, 1, IF Len(parts) < 2 THEN Len(parts) ELSE 2)

\* a variant of major_versions_differ with a bug: only the major component
\* is compared
major_versions_differ_major_only(v1, v2) ==
    SubSeq(split(v1, "."), 1, 1) # SubSeq(split(v2, "."), 1, 1)

\* major_versions_differ
major_versions_differ(v1, v2) == major_minor(v1) # major_minor(v2)

\* the CoreData object an unpickled state stands for
AsCoreData(obj) == [f \in DOMAIN obj \ {"class"} |-> obj[f]]

\* load(build_dir): Ok(the store) or the exception raised
load ==
    IF ~exists(filename) THEN Raise("FileNotFoundError")
    ELSE With(pickle_load(files[filename].bytes), LAMBDA obj :
             IF obj \in {Raise("UnpicklingError"), Raise("EOFError")}
             THEN [exc |-> "MesonException", msg |-> "corrupted"]
             ELSE IF obj = Raise("AttributeError")
                  THEN [exc |-> "MesonException", msg |-> "unknown classes"]
             ELSE IF obj.ok.class # "CoreData"
                  THEN [exc |-> "MesonException", msg |-> "corrupted"]
             ELSE IF major_versions_differ(obj.ok.version, version)
                  THEN [exc |-> "MesonVersionMismatchException",
                        old_version |-> obj.ok.version,
                        current_version |-> version]
             ELSE Ok(AsCoreData(obj.ok)))


\* what the history records before anything happened
NoHistory == [saved |-> None, before |-> None, explicit |-> None]

(***************************************************************************)
(* Option keys: canonical string form                                      *)
(***************************************************************************)
KeyNames == {s_prefix, s_bindir, s_libdir, s_buildtype, s_pkg_config_path,
             s_args, s_std, s_opt}
Subprojects == {s_empty, s_sub}
Languages == {None, PyStr(s_c), PyStr(s_cpp), PyStr(s_d)}

InitKey ==
    /\ coredata = None
    /\ assertions \in BOOLEAN
    /\ files = [f \in FileNames |-> NoFile]
    /\ pc = "idle"
    /\ loaded = None
    /\ last = [op |-> "none"]
    /\ hist = NoHistory

\* k is built by the constructor, rendered by str() and parsed again
RoundTrip ==
    \E name \in KeyNames, subproject \in Subprojects, machine \in MachineChoice,
       language \in Languages :
        LET k == OptionKey(name, subproject, machine, language)
        IN  /\ last' = [op |-> "from_string", key |-> k, raw |-> __str__(k),
                        res |-> from_string(__str__(k))]
            /\ UNCHANGED <<coredata, assertions, files, pc, loaded, hist>>

NextKey == RoundTrip

SpecKey == InitKey /\ [][NextKey]_vars

\* C1: for every key k built through the constructor,
\* OptionKey.from_string(str(k)) equals k.
C1_RoundTrip ==
    last.op = "from_string" => last.res = Ok(last.key)

(***************************************************************************)
(* Persistence: the configuring process saves its store step by step and   *)
(* may be killed between any two steps; the next process loads.            *)
(***************************************************************************)
\* versions of the tool that may have written the file found at start
Versions ==
    <<[str |-> <<"0", ".", "5", "5", ".", "9", "9", "9">>, major |-> "0", minor |-> "55"],
      [str |-> <<"0", ".", "5", "5", ".", "0">>, major |-> "0", minor |-> "55"],
      [str |-> <<"0", ".", "5", "6", ".", "0">>, major |-> "0", minor |-> "56"],
      [str |-> <<"1", ".", "5", "5", ".", "0">>, major |-> "1", minor |-> "55"]>>

\* what meson-private/coredata.dat may hold when the process starts
InitialFiles ==
    {NoFile, [bytes |-> <<"junk">>], [bytes |-> pickle_of_dict],
     [bytes |-> pickle_of_removed_class]}
    \cup {[bytes |-> pickle_dumps([CoreData(FALSE) EXCEPT !.version = Versions[i].str])] :
             i \in 1..Len(Versions)}

InitPersist ==
    /\ coredata = CoreData(FALSE)
    /\ assertions = TRUE
    /\ files \in {[f \in FileNames |-> IF f = filename THEN c ELSE NoFile] :
                     c \in InitialFiles}
    /\ pc = "idle"
    /\ loaded = None
    /\ last = [op |-> "none"]
    /\ hist = NoHistory

\* the configure step changes an option of the store
Configure ==
    /\ pc = "idle" /\ coredata # None
    /\ \E v \in {PyStr(s_1), PyStr(s_2)} :
           /\ coredata' = With(coredata, LAMBDA self :
                               set_builtin_option(self, Key(s_warning_level), v).cd)
           /\ last' = [op |-> "set_builtin_option", key |-> Key(s_warning_level),
                       value |-> v]
    /\ UNCHANGED <<assertions, files, pc, loaded, hist>>

\* save(): the version check
SaveBegin ==
    /\ pc = "idle" /\ coredata # None
    /\ IF major_versions_differ(coredata.version, version)
       THEN /\ last' = [op |-> "save", res |-> Raise("MesonException")]
            /\ UNCHANGED <<pc, hist>>
       ELSE /\ pc' = "exists"
            /\ last' = [op |-> "save_begin"]
            /\ hist' = [hist EXCEPT !.before = files[filename]]
    /\ UNCHANGED <<coredata, assertions, files, loaded>>

\* a variant of this step with a bug: the existing snapshot is never copied
SaveExists_no_backup ==
    /\ pc = "exists"
    /\ pc' = "open"
    /\ UNCHANGED <<coredata, assertions, files, loaded, last, hist>>

\* save(): if os.path.exists(filename)
SaveExists ==
    /\ pc = "exists"
    /\ pc' = IF exists(filename) THEN "copy_open" ELSE "open"
    /\ UNCHANGED <<coredata, assertions, files, loaded, last, hist>>

\* shutil.copyfile(filename, prev_filename): the destination is opened
\* for writing, which empties it
SaveCopyOpen ==
    /\ pc = "copy_open"
    /\ files' = [files EXCEPT ![prev_filename] = [bytes |-> <<>>]]
    /\ pc' = "copy_write"
    /\ UNCHANGED <<coredata, assertions, loaded, last, hist>>

\* shutil.copyfile(filename, prev_filename): the content is copied
SaveCopyWrite ==
    /\ pc = "copy_write"
    /\ files' = [files EXCEPT ![prev_filename] = files[filename]]
    /\ pc' = "open"
    /\ UNCHANGED <<coredata, assertions, loaded, last, hist>>

\* open(tempfilename, 'wb')
SaveOpen ==
    /\ pc = "open"
    /\ files' = [files EXCEPT ![tempfilename] = [bytes |-> <<>>]]
    /\ pc' = "dump"
    /\ UNCHANGED <<coredata, assertions, loaded, last, hist>>

\* pickle.dump(obj, f): the file is buffered, so any prefix of the pickle
\* may have reached the file when dump returns
SaveDump ==
    /\ pc = "dump"
    /\ \E n \in 0..Len(pickle_dumps(coredata)) :
           files' = [files EXCEPT ![tempfilename] =
                        [bytes |-> SubSeq(pickle_dumps(coredata), 1, n)]]
    /\ pc' = "flush"
    /\ UNCHANGED <<coredata, assertions, loaded, last, hist>>

\* f.flush(): the whole pickle is in the file
SaveFlush ==
    /\ pc = "flush"
    /\ files' = [files EXCEPT ![tempfilename] = [bytes |-> pickle_dumps(coredata)]]
    /\ pc' = "fsync"
    /\ UNCHANGED <<coredata, assertions, loaded, last, hist>>

\* os.fsync(f.fileno()) and the end of the with block
SaveFsync ==
    /\ pc = "fsync"
    /\ pc' = "replace"
    /\ UNCHANGED <<coredata, assertions, files, loaded, last, hist>>

\* a variant of the last step of save with a bug: the temporary file is
\* renamed onto the backup copy
SaveReplace_onto_prev ==
    /\ pc = "replace"
    /\ files' = [f \in FileNames |->
                    IF f = prev_filename THEN files[tempfilename]
                    ELSE IF f = tempfilename THEN NoFile
                    ELSE files[f]]
    /\ pc' = "idle"
    /\ last' = [op |-> "save", res |-> Ok(filename)]
    /\ hist' = [hist EXCEPT !.saved = coredata]
    /\ UNCHANGED <<coredata, assertions, loaded>>

\* os.replace(tempfilename, filename) and return
SaveReplace ==
    /\ pc = "replace"
    /\ files' = [f \in FileNames |->
                    IF f = filename THEN files[tempfilename]
                    ELSE IF f = tempfilename THEN NoFile
                    ELSE files[f]]
    /\ pc' = "idle"
    /\ last' = [op |-> "save", res |-> Ok(filename)]
    /\ hist' = [hist EXCEPT !.saved = coredata]
    /\ UNCHANGED <<coredata, assertions, loaded>>

\* the process is killed inside save()
Crash ==
    /\ pc # "idle"
    /\ pc' = "idle"
    /\ coredata' = None
    /\ last' = [op |-> "crash", at |-> pc]
    /\ UNCHANGED <<assertions, files, loaded, hist>>

\* a new process builds a fresh store
NewCoreData ==
    /\ pc = "idle" /\ coredata = None
    /\ coredata' = CoreData(FALSE)
    /\ last' = [op |-> "CoreData"]
    /\ UNCHANGED <<assertions, files, pc, loaded, hist>>

\* a process calls load(build_dir)
Load ==
    /\ pc = "idle"
    /\ loaded' = load
    /\ coredata' = IF Raised(loaded') THEN coredata ELSE loaded'.ok
    /\ last' = [op |-> "load", content |-> files[filename]]
    /\ UNCHANGED <<assertions, files, pc, hist>>

NextPersist ==
    \/ Configure \/ SaveBegin \/ SaveExists \/ SaveCopyOpen \/ SaveCopyWrite
    \/ SaveOpen \/ SaveDump \/ SaveFlush \/ SaveFsync \/ SaveReplace
    \/ Crash \/ NewCoreData \/ Load

SpecPersist == InitPersist /\ [][NextPersist]_vars

\* the keys of the builtin options, for the root project and a subproject
BuiltinKeys ==
    {OptionKey(n, sub, HOST, None) :
        n \in DOMAIN BUILTIN_OPTIONS \cup DOMAIN BUILTIN_OPTIONS_PER_MACHINE,
        sub \in Subprojects}
    \cup {OptionKey(n, sub, BUILD, None) :
             n \in DOMAIN BUILTIN_OPTIONS_PER_MACHINE, sub \in Subprojects}

\* C2: a crash after any step of save leaves coredata.dat holding the
\* complete previous snapshot (or no file if there was none) or the
\* complete new snapshot, never partial content; until the rename the
\* previous content is intact.
C2_CrashSafe ==
    /\ pc # "idle" => files[filename] = hist.before
    /\ last.op = "crash" => files[filename] = hist.before
    /\ last.op = "save" /\ ~Raised(last.res) =>
           files[filename] = [bytes |-> pickle_dumps(hist.saved)]

\* killed after the temporary file was written and synced, before the
\* rename, with an older snapshot in place
C2_Witness ==
    /\ last.op = "crash" /\ last.at = "replace" /\ ~IsNone(hist.saved)
    /\ exists(filename) /\ exists(tempfilename)
    /\ files[filename] = [bytes |-> pickle_dumps(hist.saved)]
    /\ files[tempfilename] # files[filename]
    /\ ~Raised(pickle_load(files[tempfilename].bytes))

\* C7: load of a structurally valid snapshot raises the version-mismatch
\* error, carrying both versions, exactly when the major.minor pairs
\* differ, and returns the store otherwise; a mismatch is never reported
\* as a corrupted cache.
C7_VersionMismatch ==
    (last.op = "load" /\ "bytes" \in DOMAIN last.content) =>
        LET o == pickle_load(last.content.bytes)
        IN  (~Raised(o) /\ o.ok.class = "CoreData") =>
                \A i \in 1..Len(Versions) :
                    o.ok.version = Versions[i].str =>
                        IF <<Versions[i].major, Versions[i].minor>> # <<"0", "55">>
                        THEN loaded = [exc |-> "MesonVersionMismatchException",
                                       old_version |-> Versions[i].str,
                                       current_version |-> version]
                        ELSE loaded = Ok(AsCoreData(o.ok))

\* a snapshot written by 0.56.0 was refused, one written by 0.55.0 accepted
C7_Witness ==
    /\ last.op = "load" /\ Raised(loaded)
    /\ loaded.exc = "MesonVersionMismatchException"
    /\ loaded.old_version = Versions[3].str

C7_WitnessPatch ==
    /\ last.op = "load" /\ ~Raised(loaded) /\ ~IsNone(loaded)
    /\ loaded.ok.version = Versions[2].str

\* C8: load after a completed save returns a store in which every option
\* key reads the value it had in the saved store.
C8_RoundTrip ==
    (last.op = "load" /\ hist.saved # None) =>
        /\ ~Raised(loaded)
        /\ \A k \in BuiltinKeys : get(loaded.ok, k) = get(hist.saved, k)

\* a store with warning_level=2 was saved and loaded back
C8_Witness ==
    /\ last.op = "load" /\ hist.saved # None /\ ~Raised(loaded)
    /\ hist.saved.builtins[s_warning_level].value = PyStr(s_2)
    /\ get(loaded.ok, Key(s_warning_level)) = Ok(PyStr(s_2))


(***************************************************************************)
(* The buildtype triple: set_builtin_option on buildtype, optimization and *)
(* debug, for the root project and through a subproject key.               *)
(***************************************************************************)
BuildtypeValues ==
    {PyStr(s_plain), PyStr(s_debug), PyStr(s_debugoptimized), PyStr(s_release),
     PyStr(s_minsize), PyStr(s_custom), PyStr(s_0)}
OptimizationValues ==
    {PyStr(s_0), PyStr(s_g), PyStr(s_1), PyStr(s_2), PyStr(s_3), PyStr(s_s),
     PyStr(s_plain)}
DebugValues == {PyBool(TRUE), PyBool(FALSE), PyStr(s_true), PyStr(s_false), PyStr(s_0)}

InitBuildtype ==
    /\ coredata = CoreData(FALSE)
    /\ assertions \in BOOLEAN
    /\ files = [f \in FileNames |-> NoFile]
    /\ pc = "idle"
    /\ loaded = None
    /\ last = [op |-> "none"]
    /\ hist = NoHistory

\* a call of set_builtin_option(key, value): the store and what is recorded
Call_set_builtin_option(key, value) ==
    \E r \in {With(coredata, LAMBDA self : set_builtin_option(self, key, value))} :
        /\ coredata' = r.cd
        /\ last' = [op |-> "set_builtin_option", key |-> key, value |-> value,
                    before |-> coredata, res |-> r.res]

SetBuildtype ==
    /\ \E sub \in Subprojects, v \in BuildtypeValues :
           Call_set_builtin_option(OptionKey(s_buildtype, sub, HOST, None), v)
    /\ UNCHANGED <<assertions, files, pc, loaded, hist>>

SetOptimization ==
    /\ \E sub \in Subprojects, v \in OptimizationValues :
           Call_set_builtin_option(OptionKey(s_optimization, sub, HOST, None), v)
    /\ UNCHANGED <<assertions, files, pc, loaded, hist>>

SetDebug ==
    /\ \E sub \in Subprojects, v \in DebugValues :
           Call_set_builtin_option(OptionKey(s_debug, sub, HOST, None), v)
    /\ UNCHANGED <<assertions, files, pc, loaded, hist>>

NextBuildtype == SetBuildtype \/ SetOptimization \/ SetDebug

SpecBuildtype == InitBuildtype /\ [][NextBuildtype]_vars

\* the table of the buildtypes: <<buildtype, optimization, debug>>
BuildtypeRows ==
    <<<<s_plain, s_0, FALSE>>, <<s_debug, s_0, TRUE>>,
      <<s_debugoptimized, s_2, TRUE>>, <<s_release, s_3, FALSE>>,
      <<s_minsize, s_s, TRUE>>>>

\* C4: after a successful set of buildtype to b, get(optimization) and
\* get(debug) equal the table row of b; buildtype=custom leaves both
\* unchanged.
C4_BuildtypeSetsOthers ==
    (last.op = "set_builtin_option" /\ last.key.name = s_buildtype
     /\ ~Raised(last.res)) =>
        /\ \A i \in 1..Len(BuildtypeRows) :
               last.value = PyStr(BuildtypeRows[i][1]) =>
                   /\ get(coredata, Key(s_optimization)) = Ok(PyStr(BuildtypeRows[i][2]))
                   /\ get(coredata, Key(s_debug)) = Ok(PyBool(BuildtypeRows[i][3]))
        /\ last.value = PyStr(s_custom) =>
               /\ get(coredata, Key(s_optimization)) =
                      get(last.before, Key(s_optimization))
               /\ get(coredata, Key(s_debug)) = get(last.before, Key(s_debug))

\* buildtype=release was set on a store with optimization=s and debug=true
C4_Witness ==
    /\ last.op = "set_builtin_option" /\ last.key = Key(s_buildtype)
    /\ last.value = PyStr(s_release) /\ ~Raised(last.res)
    /\ last.before.builtins[s_optimization].value = PyStr(s_s)
    /\ last.before.builtins[s_debug].value = PyBool(TRUE)
    /\ coredata.builtins[s_optimization].value = PyStr(s_3)
    /\ coredata.builtins[s_debug].value = PyBool(FALSE)

\* C5: after a successful set of optimization or of debug, get(buildtype)
\* is the buildtype whose row matches the current (optimization, debug)
\* pair, and 'custom' when no row matches.
C5_OthersSetBuildtype ==
    (last.op = "set_builtin_option" /\ last.key.name \in {s_optimization, s_debug}
     /\ ~Raised(last.res)) =>
        LET o == get(coredata, Key(s_optimization))
            d == get(coredata, Key(s_debug))
            b == get(coredata, Key(s_buildtype))
            matches(i) == /\ o = Ok(PyStr(BuildtypeRows[i][2]))
                          /\ d = Ok(PyBool(BuildtypeRows[i][3]))
        IN  /\ \A i \in 1..Len(BuildtypeRows) :
                   matches(i) => b = Ok(PyStr(BuildtypeRows[i][1]))
            /\ (\A i \in 1..Len(BuildtypeRows) : ~matches(i)) =>
                   b = Ok(PyStr(s_custom))

\* optimization=0 was set with debug off (buildtype plain) and then
\* debug=true, which yields buildtype debug
C5_Witness ==
    /\ last.op = "set_builtin_option" /\ last.key = Key(s_debug)
    /\ last.value = PyBool(TRUE) /\ ~Raised(last.res)
    /\ last.before.builtins[s_optimization].value = PyStr(s_0)
    /\ last.before.builtins[s_buildtype].value = PyStr(s_plain)
    /\ coredata.builtins[s_buildtype].value = PyStr(s_debug)

\* no row matches optimization=g: the buildtype became custom
C5_WitnessCustom ==
    /\ last.op = "set_builtin_option" /\ last.key.name = s_optimization
    /\ last.value = PyStr(s_g) /\ ~Raised(last.res)
    /\ coredata.builtins[s_buildtype].value = PyStr(s_custom)

(***************************************************************************)
(* Subprojects: builtin options read and set through the keys of the root  *)
(* project and of the subproject 'sub', before and after                   *)
(* init_builtins('sub').                                                   *)
(***************************************************************************)
\* the yielding and the non-yielding builtin options that are set
YieldingNames == {s_strip, s_libdir}
NonYieldingNames == {s_werror}

\* the values each of them is set to
BuiltinValues ==
    (s_strip :> {PyBool(TRUE), PyBool(FALSE)}) @@
    (s_libdir :> {PyStr(s_lib), PyStr(s_lib64)}) @@
    (s_werror :> {PyBool(TRUE), PyBool(FALSE)})

InitYield ==
    /\ coredata = CoreData(FALSE)
    /\ assertions \in BOOLEAN
    /\ files = [f \in FileNames |-> NoFile]
    /\ pc = "idle"
    /\ loaded = None
    /\ last = [op |-> "none"]
    /\ hist = [NoHistory EXCEPT !.explicit = [n \in YieldingNames |-> None]]

\* the interpreter enters the subproject: init_builtins('sub')
InitBuiltinsSub ==
    /\ coredata' = init_builtins(coredata,
                       builtin_options_libdir_cross_fixup(coredata.cross_files), s_sub)
    /\ last' = [op |-> "init_builtins", subproject |-> s_sub]
    /\ UNCHANGED <<assertions, files, pc, loaded, hist>>

\* set_builtin_option(N, v) for the root project
SetRootOption ==
    /\ \E n \in DOMAIN BuiltinValues : \E v \in BuiltinValues[n] :
           Call_set_builtin_option(Key(n), v)
    /\ UNCHANGED <<assertions, files, pc, loaded, hist>>

\* set_builtin_option(sub:N, v); the history keeps the value set for sub
SetSubOption ==
    /\ \E n \in DOMAIN BuiltinValues : \E v \in BuiltinValues[n] :
           /\ Call_set_builtin_option(OptionKey(n, s_sub, HOST, None), v)
           /\ hist' = IF n \in YieldingNames /\ ~Raised(last'.res)
                      THEN [hist EXCEPT !.explicit[n] = v]
                      ELSE hist
    /\ UNCHANGED <<assertions, files, pc, loaded>>

NextYield == InitBuiltinsSub \/ SetRootOption \/ SetSubOption

SpecYield == InitYield /\ [][NextYield]_vars

\* C3: for a yielding builtin option N, get(sub:N) returns the root value
\* of N while N was not set for sub, and the value set for sub afterwards,
\* whatever the root value becomes.
C3_YieldingSubproject ==
    \A n \in YieldingNames :
        IF IsNone(hist.explicit[n])
        THEN get(coredata, OptionKey(n, s_sub, HOST, None)) = get(coredata, Key(n))
        ELSE get(coredata, OptionKey(n, s_sub, HOST, None)) = Ok(hist.explicit[n])

(***************************************************************************)
(* Installation directories: set_options on batches that give the prefix,  *)
(* libdir and sysconfdir.                                                  *)
(***************************************************************************)
s_usr_slash == <<"/", "u", "s", "r", "/">>
s_slash_opt == <<"/", "o", "p", "t">>
s_usr_lib64 == <<"/", "u", "s", "r", "/", "l", "i", "b", "6", "4">>
s_opt_lib == <<"/", "o", "p", "t", "/", "l", "i", "b">>
s_usr_lib_dotdot_d == <<"/", "u", "s", "r", "/", "l", "i", "b", ".", ".", "d">>
s_usr_dotdot_opt == <<"/", "u", "s", "r", "/", ".", ".", "/", "o", "p", "t">>
s_dotdot_opt == <<".", ".", "/", "o", "p", "t">>

\* the longest batch handed to set_options
MaxDirBatch == 2

\* the options argument: every sequence of at most n entries with
\* distinct keys
Batches(entries, n) ==
    {b \in UNION {[1..k -> entries] : k \in 1..n} :
        \A i, j \in 1..Len(b) : i # j => b[i][1] # b[j][1]}

DirEntries ==
    {<<Key(s_prefix), PyStr(v)>> : v \in {s_usr, s_usr_slash, s_slash_opt}}
    \cup {<<Key(s_libdir), PyStr(v)>> :
             v \in {s_usr_lib64, s_opt_lib, s_usr_lib_dotdot_d, s_usr_dotdot_opt,
                    s_lib, s_dotdot_opt}}
    \cup {<<Key(s_sysconfdir), PyStr(v)>> : v \in {s_slash_etc}}

InitDir ==
    /\ coredata = CoreData(FALSE)
    /\ assertions \in BOOLEAN
    /\ files = [f \in FileNames |-> NoFile]
    /\ pc = "idle"
    /\ loaded = None
    /\ last = [op |-> "none"]
    /\ hist = NoHistory

\* a call of set_options(options): the store and what is recorded
Call_set_options(options) ==
    \E r \in {set_options(coredata, options, s_empty, TRUE)} :
        /\ coredata' = r.cd
        /\ last' = [op |-> "set_options", options |-> options,
                    before |-> coredata, res |-> r.res]

SetDirOptions ==
    /\ \E options \in Batches(DirEntries, MaxDirBatch) : Call_set_options(options)
    /\ UNCHANGED <<assertions, files, pc, loaded, hist>>

NextDir == SetDirOptions

SpecDir == InitDir /\ [][NextDir]_vars

\* the components of a path written with '/'
Components(path) == SelectSeq(split(path, "/"), LAMBDA c : c # <<>>)

\* path lies under prefix: the components of prefix begin it and no
\* component after them is '..'
Under(path, prefix) ==
    /\ Len(Components(prefix)) <= Len(Components(path))
    /\ SubSeq(Components(path), 1, Len(Components(prefix))) = Components(prefix)
    /\ \A i \in (Len(Components(prefix)) + 1)..Len(Components(path)) :
           Components(path)[i] # s_dotdot

\* the prefix-relative form of a path under prefix
Relative(path, prefix) ==
    IF Len(Components(path)) = Len(Components(prefix)) THEN <<".">>
    ELSE join(<<"/">>, SubSeq(Components(path), Len(Components(prefix)) + 1,
                              Len(Components(path))))

\* the prefix in force for a batch: the one it gives, or the stored one
EffectivePrefix(options, before) ==
    IF dict_has(options, Key(s_prefix)) THEN dict_get(options, Key(s_prefix)).str
    ELSE before.builtins[s_prefix].value.str

\* C6: in set_options, an absolute libdir under the effective prefix is
\* stored as the prefix-relative path; an absolute libdir outside the
\* prefix fails the call with MesonException and leaves libdir unchanged.
C6_DirSanitized ==
    (last.op = "set_options" /\ dict_has(last.options, Key(s_libdir))
     /\ isabs(dict_get(last.options, Key(s_libdir)).str)) =>
        IF Under(dict_get(last.options, Key(s_libdir)).str,
                 EffectivePrefix(last.options, last.before))
        THEN /\ ~Raised(last.res)
             /\ get(coredata, Key(s_libdir)) =
                    Ok(PyStr(Relative(dict_get(last.options, Key(s_libdir)).str,
                                      EffectivePrefix(last.options, last.before))))
        ELSE /\ last.res = Raise("MesonException")
             /\ get(coredata, Key(s_libdir)) = get(last.before, Key(s_libdir))

\* C6 on the batches whose libdir has no '..' inside a component name
C6_DirSanitizedPlainNames ==
    (last.op = "set_options" /\ dict_has(last.options, Key(s_libdir))
     /\ dict_get(last.options, Key(s_libdir)).str # s_usr_lib_dotdot_d) =>
        C6_DirSanitized

(***************************************************************************)
(* Bulk application: set_options on a native and on a cross build, with    *)
(* compilers added by process_new_compiler and build-machine options set   *)
(* one by one through set_any_option.                                      *)
(***************************************************************************)
s_c99 == <<"c", "9", "9">>
s_c11 == <<"c", "1", "1">>
s_slash_a == <<"/", "a">>
s_slash_b == <<"/", "b">>

\* comp.get_options() of a C compiler: the language standard
CompilerOptions ==
    (s_std :> UserOption("combo", <<PyStr(s_c99), PyStr(s_c11)>>, FALSE, PyStr(s_c99)))

\* CoreData.process_new_compiler for a compiler of lang on for_machine whose
\* get_options() is options: setdefault keeps the options already stored.
\* env.compiler_options holds no value for them and the compiler has no
\* base options.
process_new_compiler(self, lang, for_machine, options) ==
    With(IF lang \in DOMAIN self.compiler_options[for_machine]
         THEN self.compiler_options[for_machine][lang] ELSE EmptyDict, LAMBDA old :
        [self EXCEPT !.compiler_options[for_machine] =
            (lang :> [k \in DOMAIN options \cup DOMAIN old |->
                         IF k \in DOMAIN old THEN old[k] ELSE options[k]]) @@ @])

\* the longest batch handed to set_options
MaxBatch == 2

\* the entries of the batches: options that exist, and keys without an
\* entry in any table (a user option nobody declared, a compiler option
\* before the compiler is known, a build-machine key of an option that is
\* not per machine)
OptionEntries ==
    {<<Key(s_pkg_config_path), PyList(<<PyStr(s_slash_a)>>)>>,
     <<OptionKey(s_std, s_empty, HOST, PyStr(s_c)), PyStr(s_c11)>>,
     <<Key(s_opt), PyStr(s_1)>>,
     <<OptionKey(s_werror, s_empty, BUILD, None), PyBool(TRUE)>>}

\* build-machine options set one by one
BuildEntries ==
    {<<OptionKey(s_pkg_config_path, s_empty, BUILD, None), PyList(<<PyStr(s_slash_b)>>)>>,
     <<OptionKey(s_std, s_empty, BUILD, PyStr(s_c)), PyStr(s_c11)>>}

InitOptions ==
    /\ coredata \in {CoreData(cross_files) : cross_files \in BOOLEAN}
    /\ assertions \in BOOLEAN
    /\ files = [f \in FileNames |-> NoFile]
    /\ pc = "idle"
    /\ loaded = None
    /\ last = [op |-> "none"]
    /\ hist = NoHistory

\* a C compiler is detected for a machine
ProcessNewCompiler ==
    /\ \E for_machine \in MachineChoice :
           /\ coredata' = process_new_compiler(coredata, s_c, for_machine,
                                               CompilerOptions)
           /\ last' = [op |-> "process_new_compiler", machine |-> for_machine]
    /\ UNCHANGED <<assertions, files, pc, loaded, hist>>

\* set_any_option(key, value) on a build-machine key
SetAnyOption ==
    /\ \E e \in BuildEntries :
           \E r \in {set_any_option(coredata, e[1], e[2])} :
               /\ coredata' = r.cd
               /\ last' = [op |-> "set_any_option", key |-> e[1], value |-> e[2],
                           before |-> coredata, res |-> r.res]
    /\ UNCHANGED <<assertions, files, pc, loaded, hist>>

SetOptions ==
    /\ \E options \in Batches(OptionEntries, MaxBatch) : Call_set_options(options)
    /\ UNCHANGED <<assertions, files, pc, loaded, hist>>

NextOptions == ProcessNewCompiler \/ SetAnyOption \/ SetOptions

SpecOptions == InitOptions /\ [][NextOptions]_vars

\* the key set_options looks an entry up with: on a native build the
\* build. prefix is dropped first
EffectiveKey(self, key) == IF self.cross_files THEN key ELSE as_host(key)

\* some table of the store holds an option for the key
HasEntry(self, key) ==
    IF ~IsNone(key.language)
    THEN /\ key.language.str \in DOMAIN self.compiler_options[key.machine]
         /\ key.name \in DOMAIN self.compiler_options[key.machine][key.language.str]
    ELSE IF key.name \in DOMAIN BUILTIN_OPTIONS_PER_MACHINE
         THEN key.name \in DOMAIN self.builtins_per_machine[key.machine]
    ELSE IF key.name \in DOMAIN BUILTIN_OPTIONS
         THEN key.machine = HOST
    ELSE IF key.name \in base_options THEN key.name \in DOMAIN self.base_options
    ELSE __str__(key) \in DOMAIN self.user_options

\* entry i is the last entry of the batch for its key
IsLastFor(self, options, i) ==
    \A j \in (i + 1)..Len(options) :
        EffectiveKey(self, options[j][1]) # EffectiveKey(self, options[i][1])

\* C9: in set_options, a key without an entry in any table never aborts
\* the batch: it is collected into the unknown options and every other
\* option of the batch is applied.
C9_UnknownCollected ==
    last.op = "set_options" =>
        /\ ~Raised(last.res)
        /\ \A i \in 1..Len(last.options) :
               LET k == EffectiveKey(last.before, last.options[i][1])
               IN  IF HasEntry(last.before, k)
                   THEN IsLastFor(last.before, last.options, i) =>
                            get(coredata, k) = Ok(last.options[i][2])
                   ELSE py_in(__str__(k), last.res.ok.unknown)

\* C10: after set_options completes on a native build, every host-machine
\* per-machine builtin option and every host-machine compiler option with
\* a build-machine duplicate has the same value as its duplicate; on a
\* cross build a build-machine option keeps its value unless the batch
\* gives it one.
C10_Mirrored ==
    (last.op = "set_options" /\ ~Raised(last.res)) =>
        IF ~is_cross_build(last.before)
        THEN /\ \A k \in DOMAIN coredata.builtins_per_machine[HOST] :
                    coredata.builtins_per_machine[BUILD][k].value =
                        coredata.builtins_per_machine[HOST][k].value
             /\ \A l \in DOMAIN coredata.compiler_options[HOST] :
                    \A k \in DOMAIN coredata.compiler_options[HOST][l] :
                        (l \in DOMAIN last.before.compiler_options[BUILD]
                         /\ k \in DOMAIN last.before.compiler_options[BUILD][l]) =>
                            coredata.compiler_options[BUILD][l][k].value =
                                coredata.compiler_options[HOST][l][k].value
        ELSE /\ \A k \in DOMAIN last.before.builtins_per_machine[BUILD] :
                    (\A i \in 1..Len(last.options) :
                         last.options[i][1] # OptionKey(k, s_empty, BUILD, None)) =>
                        coredata.builtins_per_machine[BUILD][k] =
                            last.before.builtins_per_machine[BUILD][k]
             /\ \A l \in DOMAIN last.before.compiler_options[BUILD] :
                    \A k \in DOMAIN last.before.compiler_options[BUILD][l] :
                        (\A i \in 1..Len(last.options) :
                             last.options[i][1] # OptionKey(k, s_empty, BUILD, PyStr(l))) =>
                            coredata.compiler_options[BUILD][l][k] =
                                last.before.compiler_options[BUILD][l][k]

\* a native build whose build-machine pkg_config_path and c_std differed
\* from the host's: after set_options gave the host new values, both
\* build-machine options hold them
C10_Witness ==
    /\ last.op = "set_options" /\ ~Raised(last.res)
    /\ ~is_cross_build(last.before)
    /\ HasEntry(last.before, OptionKey(s_std, s_empty, BUILD, PyStr(s_c)))
    /\ HasEntry(last.before, OptionKey(s_std, s_empty, HOST, PyStr(s_c)))
    /\ last.before.compiler_options[BUILD][s_c][s_std].value = PyStr(s_c11)
    /\ last.before.compiler_options[HOST][s_c][s_std].value = PyStr(s_c99)
    /\ last.before.builtins_per_machine[BUILD][s_pkg_config_path].value =
           PyList(<<PyStr(s_slash_b)>>)
    /\ coredata.builtins_per_machine[BUILD][s_pkg_config_path].value =
           PyList(<<PyStr(s_slash_a)>>)
    /\ coredata.compiler_options[BUILD][s_c][s_std].value = PyStr(s_c99)

\* a cross build whose build-machine pkg_config_path kept its value while
\* set_options gave the host another one
C10_WitnessCross ==
    /\ last.op = "set_options" /\ ~Raised(last.res)
    /\ is_cross_build(last.before)
    /\ coredata.builtins_per_machine[BUILD][s_pkg_config_path].value =
           PyList(<<PyStr(s_slash_b)>>)
    /\ coredata.builtins_per_machine[HOST][s_pkg_config_path].value =
           PyList(<<PyStr(s_slash_a)>>)
    /\ last.before.builtins_per_machine[HOST][s_pkg_config_path].value = PyList(<<>>)

(***************************************************************************)
(* The order of set_options: the prefix of the batch comes first.          *)
(***************************************************************************)
\* the directory options of a batch: every entry but the prefix whose name
\* is in BUILTIN_DIR_OPTIONS or builtin_dir_noprefix_options
IsDirEntry(options, i) ==
    /\ options[i][1].name # s_prefix
    /\ options[i][1].name \in
           DOMAIN BUILTIN_DIR_OPTIONS \cup DOMAIN builtin_dir_noprefix_options

\* the sanitized prefix a batch is processed with: of the prefix it gives,
\* or the stored one
BatchPrefix(options, before) ==
    IF dict_has(options, Key(s_prefix))
    THEN sanitize_prefix(dict_get(options, Key(s_prefix)).str)
    ELSE Ok(before.builtins[s_prefix].value.str)

\* C11: in set_options, a prefix given by the batch is sanitized and stored
\* before any other option of the batch is processed (it is stored even
\* when a later option fails the call), and every directory option of the
\* batch is sanitized against it whatever its position; a batch without
\* prefix is sanitized against the stored prefix.
C11_PrefixFirst ==
    last.op = "set_options" =>
        IF Raised(BatchPrefix(last.options, last.before))
        THEN Raised(last.res) /\ coredata = last.before
        ELSE /\ coredata.builtins[s_prefix].value =
                    PyStr(BatchPrefix(last.options, last.before).ok)
             /\ Raised(last.res) <=>
                    \E i \in 1..Len(last.options) :
                        /\ IsDirEntry(last.options, i)
                        /\ Raised(sanitize_dir_option_value(
                               BatchPrefix(last.options, last.before).ok,
                               last.options[i][1].name, last.options[i][2]))
             /\ ~Raised(last.res) =>
                    \A i \in 1..Len(last.options) :
                        IsDirEntry(last.options, i) =>
                            get(coredata, last.options[i][1]) =
                                sanitize_dir_option_value(
                                    BatchPrefix(last.options, last.before).ok,
                                    last.options[i][1].name, last.options[i][2])

\* a batch that names libdir before prefix: /opt/lib is stored as 'lib',
\* relative to the prefix /opt of the batch and not to the stored /usr/local
C11_Witness ==
    /\ last.op = "set_options" /\ ~Raised(last.res)
    /\ last.options = <<<<Key(s_libdir), PyStr(s_opt_lib)>>,
                        <<Key(s_prefix), PyStr(s_slash_opt)>>>>
    /\ last.before.builtins[s_prefix].value = PyStr(s_usr_local)
    /\ coredata.builtins[s_prefix].value = PyStr(s_slash_opt)
    /\ coredata.builtins[s_libdir].value = PyStr(s_lib)

\* a batch without prefix, sanitized against a stored prefix that an
\* earlier batch set: /opt/lib is stored as 'lib'
C11_WitnessStored ==
    /\ last.op = "set_options" /\ ~Raised(last.res)
    /\ ~dict_has(last.options, Key(s_prefix))
    /\ last.before.builtins[s_prefix].value = PyStr(s_slash_opt)
    /\ dict_has(last.options, Key(s_libdir))
    /\ dict_get(last.options, Key(s_libdir)) = PyStr(s_opt_lib)
    /\ coredata.builtins[s_libdir].value = PyStr(s_lib)

(***************************************************************************)
(* Option values: option objects of every class are installed as the user  *)
(* option 'opt' and set to raw values of every Python type.                *)
(***************************************************************************)
\* CoreData.merge_user_options: an option is added, or replaces one of
\* another class
merge_user_options(self, options) ==
    With(self.user_options, LAMBDA old :
        [self EXCEPT !.user_options =
            [name \in DOMAIN old \cup DOMAIN options |->
                IF name \notin DOMAIN old THEN options[name]
                ELSE IF old[name].kind # options[name].kind THEN options[name]
                ELSE old[name]]])

s_a == <<"a">>
s_b == <<"b">>
s_z == <<"z">>

\* the option objects the constructors build: each class, an integer option
\* with and without an upper bound, an array option with a choice set and
\* one that allows duplicates
OptionObjects ==
    {UserOption("boolean", <<PyBool(TRUE), PyBool(FALSE)>>, FALSE, PyBool(FALSE)),
     UserOption("string", <<>>, FALSE, PyStr(s_a)),
     UserOption("combo", <<PyStr(s_a), PyStr(s_b)>>, FALSE, PyStr(s_a)),
     UserIntegerOption(PyInt(2), PyInt(4), FALSE, PyInt(3)),
     UserIntegerOption(PyInt(2), None, FALSE, PyInt(4)),
     UserUmaskOption(FALSE, PyInt(18)),
     UserArrayOption(<<>>, FALSE, FALSE, PyList(<<>>)),
     UserArrayOption(<<PyStr(s_a), PyStr(s_b)>>, FALSE, FALSE, PyList(<<>>)),
     UserArrayOption(<<>>, TRUE, FALSE, PyList(<<>>))}

\* the raw values handed to set_value
RawStrings ==
    {<<"T", "R", "U", "E">>, s_true, <<"T", "r", "u", "e">>, s_false,
     <<"m", "a", "y", "b", "e">>, s_empty,
     s_1, s_2, <<"4">>, <<"5">>, <<"+", "3">>, <<" ", "3", " ">>, <<"3", "x">>,
     <<"0", "0", "2", "2">>, <<"7", "7", "7">>, <<"1", "0", "0", "0">>, <<"8">>,
     <<"0", "o", "2", "2">>, <<"-", "1">>, s_preserve,
     <<"a", ",", "b", ",", "c">>, <<"a", ",", " ", "b">>, <<"a", ",", "a">>,
     <<"a", ",", "z">>,
     <<"[", "'", "a", "'", ",", " ", "'", "b", "'", "]">>,
     <<"[", "a", "]">>, <<"[", "'", "a", "'">>, <<"[", "1", "]">>}

RawValues ==
    {PyStr(s) : s \in RawStrings}
    \cup {PyInt(n) : n \in {-1, 0, 1, 2, 3, 4, 5, 18, 511, 512}}
    \cup {PyBool(TRUE), PyBool(FALSE), None}
    \cup {PyList(l) : l \in {<<>>, <<PyStr(s_a), PyStr(s_b), PyStr(s_c)>>,
                             <<PyStr(s_a), PyStr(s_a)>>, <<PyStr(s_a), PyStr(s_z)>>,
                             <<PyStr(s_b), PyStr(s_a)>>, <<PyInt(1)>>}}

InitValue ==
    /\ coredata = CoreData(FALSE)
    /\ assertions \in BOOLEAN
    /\ files = [f \in FileNames |-> NoFile]
    /\ pc = "idle"
    /\ loaded = None
    /\ last = [op |-> "none"]
    /\ hist = NoHistory

\* the project declares the option: merge_user_options({'opt': option})
MergeUserOptions ==
    /\ \E o \in OptionObjects :
           /\ coredata' = merge_user_options(coredata, (s_opt :> o))
           /\ last' = [op |-> "merge_user_options", option |-> o]
    /\ UNCHANGED <<assertions, files, pc, loaded, hist>>

\* a call of self.user_options['opt'].set_value(newvalue): the option
\* before the call, the outcome and whether mlog.deprecation was called
Call_set_value(op, newvalue) ==
    /\ s_opt \in DOMAIN coredata.user_options
    /\ \E r \in {set_value(coredata.user_options[s_opt], newvalue)} :
           /\ coredata' = IF Raised(r) THEN coredata
                          ELSE [coredata EXCEPT !.user_options[s_opt] = r.ok]
           /\ last' = [op |-> op, value |-> newvalue,
                       before |-> coredata.user_options[s_opt],
                       res |-> IF Raised(r) THEN r ELSE Ok(None),
                       deprecation |->
                           /\ coredata.user_options[s_opt].kind = "array"
                           /\ UserArrayOption_deprecation(
                                  coredata.user_options[s_opt], newvalue)]

SetValue ==
    /\ \E newvalue \in RawValues : Call_set_value("set_value", newvalue)
    /\ UNCHANGED <<assertions, files, pc, loaded, hist>>

\* the option is set to what it prints: set_value(printable_value())
SetPrintable ==
    /\ s_opt \in DOMAIN coredata.user_options
    /\ Call_set_value("set_printable", printable_value(coredata.user_options[s_opt]))
    /\ UNCHANGED <<assertions, files, pc, loaded, hist>>

NextValue == MergeUserOptions \/ SetValue \/ SetPrintable

SpecValue == InitValue /\ [][NextValue]_vars

\* the option object after the latest call
Stored == coredata.user_options[s_opt]

\* C14: for every option class, set_value(raw) either stores
\* validate_value(raw) as the new value and changes nothing else of the
\* option, or, when validate_value raises, raises that error and leaves
\* the option exactly as it was before the call.
C14_SetAtomic ==
    last.op = "set_value" =>
        IF Raised(validate_value(last.before, last.value))
        THEN /\ last.res = validate_value(last.before, last.value)
             /\ Stored = last.before
        ELSE /\ last.res = Ok(None)
             /\ Stored = [last.before EXCEPT
                             !.value = validate_value(last.before, last.value).ok]

\* an integer option that held 3 was set to 5, above its bound 4: the call
\* raised and the option still holds 3
C14_Witness ==
    /\ last.op = "set_value"
    /\ last.before = UserIntegerOption(PyInt(2), PyInt(4), FALSE, PyInt(3))
    /\ last.value = PyInt(5)
    /\ last.res = Raise("MesonException")
    /\ Stored.value = PyInt(3)

\* an array option was set to a list and holds it
C14_WitnessStored ==
    /\ last.op = "set_value"
    /\ last.before.kind = "array"
    /\ last.before.value = PyList(<<>>)
    /\ last.value = PyList(<<PyStr(s_b), PyStr(s_a)>>)
    /\ last.res = Ok(None)
    /\ Stored.value = PyList(<<PyStr(s_b), PyStr(s_a)>>)

\* the integers the decimal strings among the raw values write, and the
\* strings that write no decimal integer
DecimalStrings ==
    (s_1 :> 1) @@ (s_2 :> 2) @@ (<<"4">> :> 4) @@ (<<"5">> :> 5) @@ (<<"8">> :> 8)
    @@ (<<"+", "3">> :> 3) @@ (<<" ", "3", " ">> :> 3) @@ (<<"-", "1">> :> -1)
    @@ (<<"0", "0", "2", "2">> :> 22) @@ (<<"7", "7", "7">> :> 777)
    @@ (<<"1", "0", "0", "0">> :> 1000)

\* the latest call set an Integer option that has both bounds
IntegerCall ==
    /\ last.op = "set_value"
    /\ last.before.kind = "integer"
    /\ ~IsNone(last.before.min_value) /\ ~IsNone(last.before.max_value)

\* C15: for an Integer option with bounds [lo, hi], set_value(v) succeeds
\* and stores v if and only if lo <= v <= hi (lo and hi succeed, lo-1 and
\* hi+1 fail); a decimal string is parsed to its integer before the range
\* check and a string that writes no integer fails.
C15_IntegerRange ==
    IntegerCall =>
        /\ IsInt(last.value) =>
               IF last.before.min_value.int <= last.value.int
                  /\ last.value.int <= last.before.max_value.int
               THEN last.res = Ok(None) /\ Stored.value = last.value
               ELSE last.res = Raise("MesonException") /\ Stored = last.before
        /\ (IsStr(last.value) /\ last.value.str \in DOMAIN DecimalStrings) =>
               IF last.before.min_value.int <= DecimalStrings[last.value.str]
                  /\ DecimalStrings[last.value.str] <= last.before.max_value.int
               THEN /\ last.res = Ok(None)
                    /\ Stored.value = PyInt(DecimalStrings[last.value.str])
               ELSE last.res = Raise("MesonException") /\ Stored = last.before
        /\ (IsStr(last.value) /\ last.value.str \notin DOMAIN DecimalStrings) =>
               last.res = Raise("MesonException") /\ Stored = last.before

\* the option with bounds [2, 4] that held 3 was set to the string '4',
\* its upper bound, and holds the integer 4
C15_Witness ==
    /\ IntegerCall
    /\ last.before.value = PyInt(3)
    /\ last.before.max_value = PyInt(4)
    /\ last.value = PyStr(<<"4">>)
    /\ last.res = Ok(None)
    /\ Stored.value = PyInt(4)

\* the same option was set to 1, below its lower bound 2, and to 2
C15_WitnessBelow ==
    /\ IntegerCall
    /\ last.before.min_value = PyInt(2)
    /\ last.value = PyInt(1)
    /\ last.res = Raise("MesonException")

C15_WitnessLow ==
    /\ IntegerCall
    /\ last.before.min_value = PyInt(2)
    /\ last.before.value = PyInt(3)
    /\ last.value = PyInt(2)
    /\ Stored.value = PyInt(2)

\* the 'a,b,c' list
ListABC == PyList(<<PyStr(s_a), PyStr(s_b), PyStr(s_c)>>)

\* the latest call set an Array option
ArrayCall == last.op = "set_value" /\ last.before.kind = "array"

C16_Witness ==
    /\ ArrayCall
    /\ last.before.choices = <<>>
    /\ last.before.value = PyList(<<>>)
    /\ last.value = PyStr(<<"a", ",", "b", ",", "c">>)
    /\ Stored.value = ListABC

C16_WitnessChoices ==
    /\ ArrayCall
    /\ last.before.choices = <<PyStr(s_a), PyStr(s_b)>>
    /\ last.value = PyList(<<PyStr(s_a), PyStr(s_z)>>)
    /\ last.res = Raise("MesonException")

\* the latest call set a Boolean option
BooleanCall == last.op = "set_value" /\ last.before.kind = "boolean"

\* C18: for a Boolean option, set_value('TRUE'), set_value('true') and
\* set_value(True) all store True (strings are matched without regard to
\* case against true and false), and set_value('maybe') fails validation.
C18_Boolean ==
    BooleanCall =>
        /\ last.value \in {PyStr(<<"T", "R", "U", "E">>), PyStr(s_true),
                           PyStr(<<"T", "r", "u", "e">>), PyBool(TRUE)} =>
               last.res = Ok(None) /\ Stored.value = PyBool(TRUE)
        /\ last.value \in {PyStr(s_false), PyBool(FALSE)} =>
               last.res = Ok(None) /\ Stored.value = PyBool(FALSE)
        /\ last.value = PyStr(<<"m", "a", "y", "b", "e">>) =>
               last.res = Raise("MesonException") /\ Stored = last.before

\* the option that held False was set to 'TRUE' and holds True
C18_Witness ==
    /\ BooleanCall
    /\ last.before.value = PyBool(FALSE)
    /\ last.value = PyStr(<<"T", "R", "U", "E">>)
    /\ last.res = Ok(None)
    /\ Stored.value = PyBool(TRUE)

\* the option that held True was set to 'maybe' and still holds True
C18_WitnessMaybe ==
    /\ BooleanCall
    /\ last.before.value = PyBool(TRUE)
    /\ last.value = PyStr(<<"m", "a", "y", "b", "e">>)
    /\ last.res = Raise("MesonException")
    /\ Stored.value = PyBool(TRUE)

\* the numbers the raw strings write in base 8; the other raw strings
\* write no octal number
OctalStrings ==
    (s_1 :> 1) @@ (s_2 :> 2) @@ (<<"4">> :> 4) @@ (<<"5">> :> 5)
    @@ (<<"+", "3">> :> 3) @@ (<<" ", "3", " ">> :> 3) @@ (<<"-", "1">> :> -1)
    @@ (<<"0", "0", "2", "2">> :> 18) @@ (<<"0", "o", "2", "2">> :> 18)
    @@ (<<"7", "7", "7">> :> 511) @@ (<<"1", "0", "0", "0">> :> 512)

\* the character of an octal digit
OctChar(k) ==
    CASE k = 0 -> "0" [] k = 1 -> "1" [] k = 2 -> "2" [] k = 3 -> "3"
      [] k = 4 -> "4" [] k = 5 -> "5" [] k = 6 -> "6" [] k = 7 -> "7"

\* the 4-digit octal form of a number of 0..0o777
FourOctal(n) ==
    <<"0", OctChar(n \div 64), OctChar((n \div 8) % 8), OctChar(n % 8)>>

\* the latest call set a Umask option
UmaskCall ==
    last.op \in {"set_value", "set_printable"} /\ last.before.kind = "umask"

\* the raw value of the latest call is a number in 0..0o777: an int or a
\* bool, or a string that writes one in base 8
InUmaskRange ==
    \/ (IsInt(last.value) \/ IsBool(last.value))
       /\ 0 <= number(last.value) /\ number(last.value) <= 511
    \/ IsStr(last.value) /\ last.value.str \in DOMAIN OctalStrings
       /\ 0 <= OctalStrings[last.value.str] /\ OctalStrings[last.value.str] <= 511

\* what a Umask option stores and prints, given the raw values it accepts
UmaskStores(accepted) ==
    /\ (UmaskCall /\ last.op = "set_value") =>
           IF accepted
           THEN /\ last.res = Ok(None)
                /\ IF last.value \in {PyStr(s_preserve), None}
                   THEN Stored.value = PyStr(s_preserve)
                   ELSE IF IsStr(last.value)
                        THEN Stored.value = PyInt(OctalStrings[last.value.str])
                   ELSE Stored.value = last.value
           ELSE last.res = Raise("MesonException") /\ Stored = last.before
    /\ (s_opt \in DOMAIN coredata.user_options /\ Stored.kind = "umask") =>
           printable_value(Stored) =
               IF Stored.value = PyStr(s_preserve) THEN Stored.value
               ELSE PyStr(FourOctal(number(Stored.value)))
    /\ (UmaskCall /\ last.op = "set_printable") =>
           last.res = Ok(None) /\ py_eq(Stored.value, last.before.value)

\* C17 as stated: a Umask option parses its input in base 8 and accepts it
\* if and only if the result lies in 0..0o777 or the input is the sentinel
\* 'preserve', which is stored as such; printable_value is the 4-digit
\* octal form of the stored number unless the sentinel is stored, and
\* setting the option to its printable value leaves the stored value
\* unchanged.
C17_UmaskAsStated ==
    UmaskStores(InUmaskRange \/ last.value = PyStr(s_preserve))

\* C17: a Umask option parses a string in base 8 and accepts its input if
\* and only if the number lies in 0..0o777, or the input is the sentinel
\* 'preserve' or None, both stored as 'preserve'; printable_value is the
\* 4-digit octal form of the stored number unless the sentinel is stored,
\* and setting the option to its printable value leaves the stored value
\* unchanged.
C17_Umask ==
    UmaskStores(InUmaskRange \/ last.value \in {PyStr(s_preserve), None})

\* the option that held 0o777 was set to its printable value '0777' and
\* still holds 0o777
C17_Witness ==
    /\ UmaskCall /\ last.op = "set_printable"
    /\ last.before.value = PyInt(511)
    /\ last.value = PyStr(<<"0", "7", "7", "7">>)
    /\ last.res = Ok(None)
    /\ Stored.value = PyInt(511)

\* '1000' is 0o1000, one above the range, and was refused; None was stored
\* as the sentinel
C17_WitnessAbove ==
    /\ UmaskCall
    /\ last.value = PyStr(<<"1", "0", "0", "0">>)
    /\ last.res = Raise("MesonException")

C17_WitnessNone ==
    /\ UmaskCall
    /\ last.value = None
    /\ last.before.value = PyInt(18)
    /\ Stored.value = PyStr(s_preserve)

(***************************************************************************)
(* Lookup: keys of every shape are classified and looked up in a store     *)
(* that gains subproject, backend and compiler options on the way.         *)
(***************************************************************************)
s_backend_max_links == <<"b", "a", "c", "k", "e", "n", "d", "_", "m", "a", "x", "_", "l", "i", "n", "k", "s">>
s_backend_startup_project == <<"b", "a", "c", "k", "e", "n", "d", "_", "s", "t", "a", "r", "t", "u", "p", "_", "p", "r", "o", "j", "e", "c", "t">>
s_ninja == <<"n", "i", "n", "j", "a">>
s_xcode == <<"x", "c", "o", "d", "e">>
s_vs == <<"v", "s">>

\* CoreData.init_backend_options
init_backend_options(self, backend_name) ==
    IF backend_name = s_ninja
    THEN [self EXCEPT !.backend_options =
             (s_backend_max_links :> UserIntegerOption(PyInt(0), None, FALSE, PyInt(0)))
             @@ @]
    ELSE IF startswith(backend_name, s_vs)
    THEN [self EXCEPT !.backend_options =
             (s_backend_startup_project :> UserOption("string", <<>>, FALSE, PyStr(s_empty)))
             @@ @]
    ELSE self

\* the keys that are classified and looked up
LookupNames ==
    {s_b_lto, s_std, s_werror, s_strip, s_pkg_config_path, s_backend_max_links,
     s_opt, s_args}

LookupKeys ==
    {OptionKey(name, subproject, machine, language) :
        name \in LookupNames, subproject \in Subprojects, machine \in MachineChoice,
        language \in {None, PyStr(s_c)}}

\* the project declares the user option 'opt' before anything is looked up
InitLookup ==
    /\ coredata = merge_user_options(CoreData(FALSE),
                      (s_opt :> UserOption("string", <<>>, FALSE, PyStr(s_a))))
    /\ assertions \in BOOLEAN
    /\ files = [f \in FileNames |-> NoFile]
    /\ pc = "idle"
    /\ loaded = None
    /\ last = [op |-> "none"]
    /\ hist = NoHistory

\* the backend is chosen: init_backend_options(backend_name)
InitBackendOptions ==
    /\ \E backend_name \in {s_ninja, s_xcode} :
           /\ coredata' = init_backend_options(coredata, backend_name)
           /\ last' = [op |-> "init_backend_options", backend_name |-> backend_name]
    /\ UNCHANGED <<assertions, files, pc, loaded, hist>>

\* werror is set for the project or for the subproject
SetWerror ==
    /\ \E subproject \in Subprojects, v \in BOOLEAN :
           Call_set_builtin_option(OptionKey(s_werror, subproject, HOST, None), PyBool(v))
    /\ UNCHANGED <<assertions, files, pc, loaded, hist>>

\* get_any_option(key): the classifier it computes first, and the option
\* object returned or the exception
GetAnyOption ==
    /\ \E key \in LookupKeys :
           \E r \in {get_any_option(coredata, key)} :
               /\ coredata' = r.cd
               /\ last' = [op |-> "get_any_option", key |-> key, before |-> coredata,
                           classifier |-> classify_argument(key),
                           res |-> IF Raised(r.res) THEN r.res
                                   ELSE Ok(At(r.cd, r.res.ok))]
    /\ UNCHANGED <<assertions, files, pc, loaded, hist>>

NextLookup ==
    \/ InitBuiltinsSub \/ InitBackendOptions \/ ProcessNewCompiler \/ SetWerror
    \/ GetAnyOption

SpecLookup == InitLookup /\ [][NextLookup]_vars

\* the group the rules give a key: base table, language, builtin tables,
\* backend prefix, user
GroupOf(key) ==
    IF key.name \in {s_b_lto} THEN "BASE"
    ELSE IF key.language # None THEN "COMPILER"
    ELSE IF key.name \in {s_werror, s_strip, s_pkg_config_path} THEN "BUILTIN"
    ELSE IF startswith(key.name, s_backend_) THEN "BACKEND"
    ELSE "USER"

\* C12 as stated: classify_argument assigns every key exactly one of the
\* five groups by the rules in priority order (base table, language,
\* builtin tables, backend prefix, user), in every state of the store.
C12_ClassifyAsStated ==
    /\ \A key \in LookupKeys : classify_argument(key) = Ok(GroupOf(key))
    /\ last.op = "get_any_option" => last.classifier = Ok(GroupOf(last.key))

\* the assert statements of classify_argument fail for the key
AssertedHost(key) ==
    assertions /\ key.machine = BUILD /\ GroupOf(key) \in {"BASE", "USER"}

\* C12: classify_argument assigns every key exactly one of the five groups
\* by the rules in priority order, except that a build-machine key of the
\* Base or the User group fails the assertion when assert statements are
\* executed; the outcome depends only on the fields of the key and is the
\* same in every state of the store.
C12_Classify ==
    /\ \A key \in LookupKeys :
           classify_argument(key) =
               IF AssertedHost(key) THEN Raise("AssertionError") ELSE Ok(GroupOf(key))
    /\ last.op = "get_any_option" =>
           last.classifier = IF AssertedHost(last.key) THEN Raise("AssertionError")
                             ELSE Ok(GroupOf(last.key))

\* the key c_b_lto of the subproject was classified Base, by the first
\* rule, in a store that holds subproject, backend and compiler options
C12_Witness ==
    /\ last.op = "get_any_option"
    /\ last.key = OptionKey(s_b_lto, s_sub, HOST, PyStr(s_c))
    /\ last.classifier = Ok("BASE")
    /\ coredata.backend_options # EmptyDict
    /\ s_c \in DOMAIN coredata.compiler_options[HOST]
    /\ (s_sub \o <<":">> \o s_werror) \in DOMAIN coredata.builtins

\* build.b_lto failed the assertion
C12_WitnessAssert ==
    /\ last.op = "get_any_option"
    /\ last.key = OptionKey(s_b_lto, s_empty, BUILD, None)
    /\ last.classifier = Raise("AssertionError")

\* the name a key has in a table that is not per machine: its name, after
\* 'build.' for a build-machine key and after 'subproject:' if it has a
\* subproject
NameIn(key) ==
    (IF key.subproject = s_empty THEN s_empty ELSE key.subproject \o <<":">>)
    \o (IF key.machine = BUILD THEN s_build_dot ELSE s_empty) \o key.name

\* the name a key has in the table of its machine
NameInMachine(key) ==
    (IF key.subproject = s_empty THEN s_empty ELSE key.subproject \o <<":">>)
    \o key.name

\* the entry of a table for a name, or the unknown-option error
EntryOf(table, name) ==
    IF name \in DOMAIN table THEN Ok(table[name]) ELSE Raise("MesonException")

\* the option get resolves a key to in a store: for a Builtin key the
\* subproject entry of the per-machine or the global table unless it is
\* missing or yielding, else the entry without subproject; for the other
\* groups the entry of the group's table
Resolved(self, key) ==
    CASE GroupOf(key) = "BUILTIN" ->
             LET table == IF key.name = s_pkg_config_path
                          THEN self.builtins_per_machine[key.machine]
                          ELSE self.builtins
                 name == IF key.name = s_pkg_config_path
                         THEN NameInMachine(key) ELSE NameIn(key)
                 root == IF key.name = s_pkg_config_path
                         THEN NameInMachine(as_root(key)) ELSE NameIn(as_root(key))
             IN  IF name \in DOMAIN table /\ ~table[name].yielding
                 THEN Ok(table[name])
                 ELSE EntryOf(table, root)
      [] GroupOf(key) = "BASE" -> EntryOf(self.base_options, key.name)
      [] GroupOf(key) = "USER" -> EntryOf(self.user_options, NameIn(key))
      [] GroupOf(key) = "BACKEND" -> EntryOf(self.backend_options, key.name)
      [] GroupOf(key) = "COMPILER" ->
             IF key.language.str \in DOMAIN self.compiler_options[key.machine]
             THEN EntryOf(self.compiler_options[key.machine][key.language.str],
                          key.name)
             ELSE Raise("MesonException")

\* C13: get resolves a Builtin key in the per-machine table (for
\* per-machine names) or the global table; when the subproject entry is
\* missing or yielding it returns the entry of the key without subproject,
\* and a non-yielding subproject entry is returned itself.  A key without
\* entry after the fallback, and a missing key of any other group, fails
\* with the user-facing unknown-option error (MesonException).
C13_GetResolves ==
    last.op = "get_any_option" => last.res = Resolved(last.before, last.key)

\* C13 apart from the class of the exception: a call that ends without
\* KeyError and without AssertionError ends as C13 says
C13_GetResolvesOrKeyError ==
    (last.op = "get_any_option"
     /\ last.res \notin {Raise("KeyError"), Raise("AssertionError")}) =>
        last.res = Resolved(last.before, last.key)

\* sub:werror was resolved to the subproject entry, which differs from the
\* entry of the project
C13_WitnessSub ==
    /\ last.op = "get_any_option"
    /\ last.key = OptionKey(s_werror, s_sub, HOST, None)
    /\ (s_sub \o <<":">> \o s_werror) \in DOMAIN last.before.builtins
    /\ last.res = Ok(last.before.builtins[s_sub \o <<":">> \o s_werror])
    /\ last.res # Ok(last.before.builtins[s_werror])

\* the user option 'args', which nobody declared, ended in KeyError
C13_WitnessKeyError ==
    /\ last.op = "get_any_option"
    /\ last.key = Key(s_args)
    /\ last.res = Raise("KeyError")

(***************************************************************************)
(* Parsing: from_string on strings as they are typed on the command line,  *)
(* well formed and malformed.                                              *)
(***************************************************************************)
s_zz == <<"z", "z">>

\* the segments a raw string is put together from: at most one well formed
\* 'subproject:' segment, at most one 'build.' segment, a language prefix
SubprojectSegments == {s_empty, s_sub \o <<":">>, s_a \o <<":">> \o s_b \o <<":">>}
BuildSegments == {s_empty, s_build_dot, s_build_dot \o s_build_dot}
LanguageSegments == {s_empty, s_c \o <<"_">>, s_cpp \o <<"_">>, s_zz \o <<"_">>}
NameSegments == {s_std, s_opt, s_args, s_werror}

InitParse == InitKey

\* OptionKey.from_string(raw) for the raw string made of the segments
Parse ==
    /\ \E sp \in SubprojectSegments, b \in BuildSegments, l \in LanguageSegments,
          n \in NameSegments :
           last' = [op |-> "parse", subproject |-> sp, build |-> b, language |-> l,
                    raw |-> sp \o b \o l \o n,
                    res |-> from_string(sp \o b \o l \o n)]
    /\ UNCHANGED <<coredata, assertions, files, pc, loaded, hist>>

NextParse == Parse

SpecParse == InitParse /\ [][NextParse]_vars

\* the raw string of the latest call has two 'subproject:' segments, two
\* 'build.' segments or the prefix of a language that does not exist
Malformed ==
    \/ last.subproject = s_a \o <<":">> \o s_b \o <<":">>
    \/ last.build = s_build_dot \o s_build_dot
    \/ last.language = s_zz \o <<"_">>

\* C19: OptionKey.from_string fails with a syntax error (a user-facing
\* error, not an assertion failure and not a silently accepted key) on a
\* string with a malformed 'subproject:' segment, a malformed 'build.'
\* segment or an unknown language prefix.
C19_SyntaxError ==
    (last.op = "parse" /\ Malformed) => last.res = Raise("MesonException")

\* C19 read weakly: a malformed string is at least never accepted
C19_NeverAccepted ==
    (last.op = "parse" /\ Malformed) => Raised(last.res)

\* from_string raises nothing but AssertionError
C19_OnlyAssertions ==
    (last.op = "parse" /\ Raised(last.res)) =>
        assertions /\ last.res = Raise("AssertionError")

(***************************************************************************)
(* Default options: set_default_options for the project and for a          *)
(* subproject, with the options of the command line in                     *)
(* env.builtin_options.  The dicts of env are ordered dicts, sequences of  *)
(* <<key, value>> pairs.                                                   *)
(***************************************************************************)
\* d.setdefault(k, v), as 'if k not in d: d[k] = v'
setdefault(d, k, v) == IF dict_has(d, k) THEN d ELSE Append(d, <<k, v>>)

\* d.update(other)
RECURSIVE dict_update(_, _)
dict_update(d, other) ==
    IF other = <<>> THEN d
    ELSE dict_update(dict_set(d, other[1][1], other[1][2]), Tail(other))

\* Environment: the option dicts set_default_options reads and fills
Environment(builtin_options) ==
    [builtin_options |-> builtin_options, project_options |-> <<>>,
     compiler_options |-> <<>>, base_options |-> <<>>]

\* the first loop of set_default_options over default_options.items():
\* [options, env] after it and Ok(None), or the exception of
\* classify_argument
RECURSIVE split_default_options(_, _, _, _, _)
split_default_options(self, default_options, subproject, options, env) ==
    IF default_options = <<>>
    THEN [options |-> options, env |-> env, res |-> Ok(None)]
    ELSE With(default_options[1][1], LAMBDA k :
         With(default_options[1][2], LAMBDA v :
         With(classify_argument(k), LAMBDA classifier :
             IF Raised(classifier)
             THEN [options |-> options, env |-> env, res |-> classifier]
             ELSE CASE classifier.ok = "COMPILER" ->
                      split_default_options(self, Tail(default_options), subproject,
                          options,
                          [env EXCEPT !.compiler_options =
                              setdefault(setdefault(@, k, v), as_build(k), v)])
               [] classifier.ok = "BASE" ->
                      split_default_options(self, Tail(default_options), subproject,
                          options,
                          IF subproject = s_empty
                          THEN [env EXCEPT !.base_options = setdefault(@, k.name, v)]
                          ELSE env)
               [] classifier.ok = "BUILTIN" ->
                      IF k.subproject # s_empty /\ subproject # s_empty
                      THEN split_default_options(self, Tail(default_options),
                               subproject, options, env)
                      ELSE With(IF subproject # s_empty
                                THEN [k EXCEPT !.subproject = subproject] ELSE k,
                                LAMBDA k1 :
                           With(setdefault(env.builtin_options, k1, v), LAMBDA b1 :
                               split_default_options(self, Tail(default_options),
                                   subproject,
                                   IF k.subproject = s_empty
                                   THEN dict_set(options, k, v) ELSE options,
                                   [env EXCEPT !.builtin_options =
                                       IF is_cross_build(self)
                                       THEN setdefault(b1, as_build(k1), v)
                                       ELSE b1])))
               [] classifier.ok = "USER" ->
                      IF k.subproject = s_empty
                      THEN split_default_options(self, Tail(default_options),
                               subproject, dict_set(options, k, v), env)
                      ELSE split_default_options(self, Tail(default_options),
                               subproject, options,
                               [env EXCEPT !.project_options = dict_set(@, k, v)])
               [] OTHER ->
                      split_default_options(self, Tail(default_options), subproject,
                          dict_set(options, k, v), env))))

\* the second loop of set_default_options over env.builtin_options.items():
\* the options dict after it
RECURSIVE merge_builtin_options(_, _, _, _)
merge_builtin_options(items, subproject, builtin_options, options) ==
    IF items = <<>> THEN options
    ELSE With(items[1][1], LAMBDA k :
        IF k.subproject \notin {subproject, s_empty}
        THEN merge_builtin_options(Tail(items), subproject, builtin_options, options)
        ELSE IF k.machine = BUILD /\ k.name \notin DOMAIN BUILTIN_OPTIONS_PER_MACHINE
        THEN merge_builtin_options(Tail(items), subproject, builtin_options, options)
        ELSE IF /\ subproject # s_empty
                /\ k.name \in DOMAIN BUILTIN_OPTIONS
                /\ ~BUILTIN_OPTIONS[k.name].yielding
                /\ k.subproject = s_empty
                /\ dict_has(builtin_options, [k EXCEPT !.subproject = subproject])
        THEN merge_builtin_options(Tail(items), subproject, builtin_options, options)
        ELSE merge_builtin_options(Tail(items), subproject, builtin_options,
                                   dict_set(options, k, items[1][2])))

\* CoreData.set_default_options: the store and env after the call and the
\* outcome, and whether breakpoint() was reached.  breakpoint() stops in
\* the debugger: the call goes on when the
\* debugger continues (or PYTHONBREAKPOINT=0 disables it) and ends in
\* BdbQuit when the debugger quits or finds its input closed.
set_default_options(self, default_options, subproject, env, debugger) ==
    With(split_default_options(self, default_options, subproject, <<>>, env),
         LAMBDA s :
        IF Raised(s.res)
        THEN [cd |-> self, res |-> s.res, env |-> s.env, breakpoint |-> FALSE]
        ELSE IF debugger = "quit"
        THEN [cd |-> self, res |-> Raise("BdbQuit"), env |-> s.env,
              breakpoint |-> TRUE]
        ELSE With(set_options(self,
                      dict_update(
                          merge_builtin_options(s.env.builtin_options, subproject,
                              s.env.builtin_options, s.options),
                          SelectSeq(s.env.project_options,
                                    LAMBDA e : e[1].subproject = subproject)),
                      subproject, TRUE), LAMBDA r :
                 [cd |-> r.cd, res |-> r.res, env |-> s.env, breakpoint |-> TRUE]))

\* the default_options of a project() call: one option at most
DefaultOptions ==
    {<<>>} \cup {<<e>> : e \in {<<Key(s_werror), PyStr(s_true)>>,
                                <<Key(s_strip), PyStr(s_true)>>,
                                <<OptionKey(s_std, s_empty, HOST, PyStr(s_c)),
                                  PyStr(s_c11)>>}}

\* the longest list of builtin options on the command line
MaxCmdLine == 2

\* env.builtin_options as the command line left it: options of the project
\* and of the subproject, in the order they were given
CmdLineOptions ==
    {<<>>} \cup Batches({<<Key(s_strip), PyStr(s_false)>>,
                         <<OptionKey(s_strip, s_sub, HOST, None), PyStr(s_true)>>,
                         <<Key(s_werror), PyStr(s_true)>>,
                         <<OptionKey(s_werror, s_sub, HOST, None), PyStr(s_false)>>},
                        MaxCmdLine)

InitDefaults ==
    /\ coredata = CoreData(FALSE)
    /\ assertions = TRUE
    /\ files = [f \in FileNames |-> NoFile]
    /\ pc = "idle"
    /\ loaded = None
    /\ last = [op |-> "none"]
    /\ hist = NoHistory

\* project() of the project or of the subproject:
\* set_default_options(default_options, subproject, env)
SetDefaultOptions ==
    /\ \E default_options \in DefaultOptions, subproject \in Subprojects,
          builtin_options \in CmdLineOptions, debugger \in {"continue", "quit"} :
           \E r \in {set_default_options(coredata, default_options, subproject,
                                         Environment(builtin_options), debugger)} :
               /\ coredata' = r.cd
               /\ last' = [op |-> "set_default_options",
                           default_options |-> default_options,
                           subproject |-> subproject,
                           builtin_options |-> builtin_options,
                           before |-> coredata, env |-> r.env, res |-> r.res,
                           breakpoint |-> r.breakpoint, debugger |-> debugger]
    /\ UNCHANGED <<assertions, files, pc, loaded, hist>>

NextDefaults == InitBuiltinsSub \/ SetDefaultOptions

SpecDefaults == InitDefaults /\ [][NextDefaults]_vars

\* the boolean a command line string writes
BoolOf(v) == PyBool(v = PyStr(s_true))

\* the value declared for the subproject of the latest call for a builtin
\* option: the one of the command line (sub:N), else the one of the
\* subproject's default_options, else None
DeclaredForSub(name) ==
    IF dict_has(last.builtin_options, OptionKey(name, last.subproject, HOST, None))
    THEN BoolOf(dict_get(last.builtin_options,
                         OptionKey(name, last.subproject, HOST, None)))
    ELSE IF dict_has(last.default_options, Key(name))
    THEN BoolOf(dict_get(last.default_options, Key(name)))
    ELSE None

\* set_default_options for a subproject has completed
DefaultsSet ==
    /\ last.op = "set_default_options"
    /\ last.subproject # s_empty
    /\ ~Raised(last.res)

\* C20: after set_default_options for a subproject S, a value declared
\* directly for S for the non-yielding builtin werror wins over the
\* root-level value: get(S:werror) returns S's value; for the yielding
\* strip, get(S:strip) returns the root-level value unless S overrides it
\* explicitly, and S's value then.
C20_SubprojectWins ==
    DefaultsSet =>
        /\ DeclaredForSub(s_werror) # None =>
               get(coredata, OptionKey(s_werror, last.subproject, HOST, None)) =
                   Ok(DeclaredForSub(s_werror))
        /\ get(coredata, OptionKey(s_strip, last.subproject, HOST, None)) =
               IF DeclaredForSub(s_strip) # None THEN Ok(DeclaredForSub(s_strip))
               ELSE get(coredata, Key(s_strip))

\* C20 for the non-yielding option alone
C20_NonYieldingWins ==
    (DefaultsSet /\ DeclaredForSub(s_werror) # None) =>
        get(coredata, OptionKey(s_werror, last.subproject, HOST, None)) =
            Ok(DeclaredForSub(s_werror))

\* C20 for the yielding option when the command line names the
\* subproject's value after the root-level one, or not both
C20_YieldingInOrder ==
    (DefaultsSet
     /\ last.builtin_options #
            <<<<OptionKey(s_strip, s_sub, HOST, None), PyStr(s_true)>>,
              <<Key(s_strip), PyStr(s_false)>>>>) =>
        get(coredata, OptionKey(s_strip, last.subproject, HOST, None)) =
            IF DeclaredForSub(s_strip) # None THEN Ok(DeclaredForSub(s_strip))
            ELSE get(coredata, Key(s_strip))

\* the subproject's werror came from the command line and differs from the
\* root-level one
C20_WitnessWins ==
    /\ DefaultsSet
    /\ dict_has(last.builtin_options, Key(s_werror))
    /\ dict_has(last.builtin_options, OptionKey(s_werror, s_sub, HOST, None))
    /\ get(coredata, OptionKey(s_werror, s_sub, HOST, None)) = Ok(PyBool(FALSE))
    /\ get(coredata, Key(s_werror)) = Ok(PyBool(TRUE))

\* C21: after a successful save over an existing snapshot, coredata.dat.prev
\* holds exactly what coredata.dat held just before that save and
\* coredata.dat holds the new snapshot; a first save with no snapshot in
\* place creates no .prev file.
C21_PrevRetained ==
    (last.op = "save" /\ ~Raised(last.res)) =>
        /\ files[filename] = [bytes |-> pickle_dumps(coredata)]
        /\ files[prev_filename] = hist.before

\* a changed store was saved over the snapshot of an earlier save
C21_Witness ==
    /\ last.op = "save" /\ ~Raised(last.res)
    /\ exists(prev_filename)
    /\ files[prev_filename] = hist.before
    /\ ~Raised(pickle_load(files[prev_filename].bytes))
    /\ files[prev_filename] # files[filename]

\* a first save into an empty directory
C21_WitnessFirst ==
    /\ last.op = "save" /\ ~Raised(last.res)
    /\ hist.before = NoFile
    /\ ~exists(prev_filename)

\* walking the components of a relative path from depth levels below the
\* prefix, some '..' climbs above the prefix
RECURSIVE Climbs(_, _)
Climbs(components, depth) ==
    IF components = <<>> THEN FALSE
    ELSE IF Head(components) = s_dotdot
    THEN depth = 0 \/ Climbs(Tail(components), depth - 1)
    ELSE IF Head(components) = <<".">> THEN Climbs(Tail(components), depth)
    ELSE Climbs(Tail(components), depth + 1)

\* the stored value of a directory option resolves outside prefix
ResolvesOutside(value, prefix) ==
    IF isabs(value) THEN ~Under(value, prefix)
    ELSE Climbs(Components(value), 0)

\* the installation-directory options that are relative to the prefix
PrefixRelativeDirs ==
    {n \in DOMAIN BUILTIN_DIR_OPTIONS :
        n # s_prefix /\ n \notin DOMAIN builtin_dir_noprefix_options}

\* C22: after any successful set_options no prefix-relative
\* installation-directory option holds a value that resolves outside the
\* prefix: an absolute path outside the prefix and a value that escapes
\* the prefix through a '..' component are fatal errors.
C22_DirInsidePrefix ==
    (last.op = "set_options" /\ ~Raised(last.res)) =>
        \A n \in PrefixRelativeDirs :
            ~ResolvesOutside(coredata.builtins[n].value.str,
                             coredata.builtins[s_prefix].value.str)

\* C22 on the batches whose libdir is an absolute path
C22_DirInsidePrefixAbsolute ==
    (last.op = "set_options" /\ dict_has(last.options, Key(s_libdir))
     /\ isabs(dict_get(last.options, Key(s_libdir)).str)) =>
        /\ C22_DirInsidePrefix
        /\ ResolvesOutside(dict_get(last.options, Key(s_libdir)).str,
                           EffectivePrefix(last.options, last.before)) =>
               last.res = Raise("MesonException")

\* the relative libdir '../opt' was accepted and stored
C22_WitnessStored ==
    /\ last.op = "set_options" /\ ~Raised(last.res)
    /\ coredata.builtins[s_libdir].value = PyStr(s_dotdot_opt)

(***************************************************************************)
(* cargo cfg() expressions: lex and parse of mesonbuild/cargo/cfg_parser   *)
(***************************************************************************)
s_unix == <<"u", "n", "i", "x">>
s_windows == <<"w", "i", "n", "d", "o", "w", "s">>
s_target_os == <<"t", "a", "r", "g", "e", "t", "_", "o", "s">>
s_linux == <<"l", "i", "n", "u", "x">>
s_cfg == <<"c", "f", "g">>
s_not == <<"n", "o", "t">>
s_all == <<"a", "l", "l">>
s_any == <<"a", "n", "y">>

\* the tokens of the lexer
Identifier(identifier) == [token |-> "Identifier", identifier |-> identifier]
Equal == [token |-> "Equal", identifier |-> <<"=">>]
Comma == [token |-> "Comma", identifier |-> <<",">>]
LParen == [token |-> "LParen", identifier |-> <<"(">>]
RParen == [token |-> "RParen", identifier |-> <<")">>]

\* the index of the first of '(', ' ', ')' and ',' in expr, 0 without one
first_delimiter(expr) ==
    IF \E i \in 1..Len(expr) : expr[i] \in {"(", " ", ")", ","}
    THEN CHOOSE i \in 1..Len(expr) :
             /\ expr[i] \in {"(", " ", ")", ","}
             /\ \A j \in 1..(i - 1) : expr[j] \notin {"(", " ", ")", ","}
    ELSE 0

\* the tokens one round of the while loop of lex appends, the delimiter
\* being at index i
lex_tokens(expr, i) ==
    IF expr[i] = "(" THEN <<Identifier(SubSeq(expr, 1, i - 1)), LParen>>
    ELSE (IF expr[1] = "=" THEN <<Equal>>
          ELSE IF i > 1 THEN <<Identifier(SubSeq(expr, 1, i - 1))>>
          ELSE <<>>)
         \o (IF expr[i] = ")" THEN <<RParen>>
             ELSE IF expr[i] = "," THEN <<Comma>>
             ELSE <<>>)

\* the while loop of lex: Ok(final), Exception('WAT?') when no delimiter
\* is left, or the AssertionError of Token.__init__ for an empty identifier
RECURSIVE lex_loop(_, _)
lex_loop(expr, final) ==
    IF expr = <<>> THEN Ok(final)
    ELSE With(first_delimiter(expr), LAMBDA i :
        IF i = 0 THEN Raise("Exception")
        ELSE IF expr[i] = "(" /\ i = 1 /\ assertions THEN Raise("AssertionError")
        ELSE lex_loop(lstrip(SubSeq(expr, IF expr[i] = " " THEN i ELSE i + 1,
                                    Len(expr)), <<" ">>),
                      final \o lex_tokens(expr, i)))

\* lex(expr)
lex(expr) == lex_loop(expr, <<>>)

\* the nodes of the AST
FunctionNode(name, arguments) ==
    [node |-> "FunctionNode", value |-> name, arguments |-> arguments]
StringNode(value) == [node |-> "StringNode", value |-> value, arguments |-> <<>>]
ConstantNode(value) == [node |-> "ConstantNode", value |-> value, arguments |-> <<>>]
EqualityNode == [node |-> "EqualityNode", value |-> <<>>, arguments |-> <<>>]
AST(root) == [root |-> root]

\* The nodes parse has built are a list of trees; a node is named by the
\* index of its tree followed by the argument positions that lead to it,
\* so a change through any reference to the node is seen through all.
\* p.arguments.append(child) for the node p at path in tree
RECURSIVE append_at(_, _, _)
append_at(tree, path, child) ==
    IF path = <<>> THEN [tree EXCEPT !.arguments = Append(@, child)]
    ELSE [tree EXCEPT !.arguments[path[1]] = append_at(@, Tail(path), child)]

\* the node at path in tree
RECURSIVE node_at(_, _)
node_at(tree, path) ==
    IF path = <<>> THEN tree ELSE node_at(tree.arguments[path[1]], Tail(path))

\* p.arguments.append(child) in the list of trees
append_node(trees, ref, child) ==
    [trees EXCEPT ![ref[1]] = append_at(@, Tail(ref), child)]

\* the for loop of parse from token i on: trees built so far, the stack of
\* open functions and the current node (<<>> before the first function).
\* Ok(AST), or the exception raised.
RECURSIVE parse_loop(_, _, _, _, _)
parse_loop(prog, i, trees, stack, node) ==
    IF i > Len(prog)
    THEN Ok(AST(IF trees = <<>> THEN None ELSE trees[1]))
    ELSE With(prog[i], LAMBDA cur :
         With(IF i < Len(prog) THEN prog[i + 1] ELSE None, LAMBDA nex :
        IF cur.token = "Identifier"
        THEN IF ~IsNone(nex) /\ nex.token = "LParen"
             THEN IF stack # <<>>
                  THEN With(stack[Len(stack)], LAMBDA p :
                       With(append_node(trees, p,
                                        FunctionNode(cur.identifier, <<>>)),
                            LAMBDA trees1 :
                       With(Append(p, Len(node_at(trees1[p[1]], Tail(p)).arguments)),
                            LAMBDA ref :
                           parse_loop(prog, i + 1, trees1, Append(stack, ref), ref))))
                  ELSE parse_loop(prog, i + 1,
                                  Append(trees, FunctionNode(cur.identifier, <<>>)),
                                  Append(stack, <<Len(trees) + 1>>),
                                  <<Len(trees) + 1>>)
             ELSE IF ~IsNone(nex) /\ nex.token \in {"RParen", "Comma", "Equal"}
             THEN IF node = <<>>
                  THEN Raise(IF assertions THEN "AssertionError" ELSE "AttributeError")
                  ELSE parse_loop(prog, i + 1,
                           append_node(trees, node,
                               IF startswith(cur.identifier, <<"\"">>)
                               THEN StringNode(SubSeq(cur.identifier, 2,
                                                      Len(cur.identifier) - 1))
                               ELSE ConstantNode(cur.identifier)),
                           stack, node)
             ELSE parse_loop(prog, i + 1, trees, stack, node)
        ELSE IF cur.token = "Equal"
        THEN IF node = <<>>
             THEN Raise(IF assertions THEN "AssertionError" ELSE "AttributeError")
             ELSE parse_loop(prog, i + 1, append_node(trees, node, EqualityNode),
                             stack, node)
        ELSE IF cur.token = "RParen"
        THEN IF stack = <<>> THEN Raise("IndexError")
             ELSE IF Len(stack) > 1
             THEN parse_loop(prog, i + 1, trees, SubSeq(stack, 1, Len(stack) - 1),
                             stack[Len(stack) - 1])
             ELSE IF assertions /\ ~IsNone(nex) THEN Raise("AssertionError")
             ELSE parse_loop(prog, i + 1, trees, <<>>, node)
        ELSE parse_loop(prog, i + 1, trees, stack, node)))

\* parse(prog); lookahead of an empty program ends in RuntimeError
parse(prog) ==
    IF prog = <<>> THEN Raise("RuntimeError")
    ELSE parse_loop(prog, 1, <<>>, <<>>, <<>>)

\* parse(lex(expr))
parse_lex(expr) ==
    With(lex(expr), LAMBDA lexed : IF Raised(lexed) THEN lexed ELSE parse(lexed.ok))

\* cfg expressions as written: a bare name, name = "string", and
\* function(arguments)
Bare(name) == [form |-> "bare", name |-> name, right |-> <<>>, args |-> <<>>]
KeyValue(name, right) ==
    [form |-> "key_value", name |-> name, right |-> right, args |-> <<>>]
Call(name, args) == [form |-> "call", name |-> name, right |-> <<>>, args |-> args]

\* the most arguments of a function in the expressions checked
MaxArgs == 2

\* the argument lists over a set of expressions
ArgLists(exprs) == UNION {[1..k -> exprs] : k \in 1..MaxArgs}

CfgAtoms == {Bare(s_unix), Bare(s_windows), KeyValue(s_target_os, s_linux)}

\* not(), all() and any() over the atoms
CfgCalls == {Call(f, a) : f \in {s_not, s_all, s_any}, a \in ArgLists(CfgAtoms)}

\* the expressions checked: cfg() over atoms and calls, and
\* cfg(any(...)) and cfg(all(...)) over calls of calls
CfgExpressions ==
    {Call(s_cfg, a) : a \in ArgLists(CfgAtoms \cup CfgCalls)}
    \cup {Call(s_cfg, <<Call(f, a)>>) :
             f \in {s_any, s_all}, a \in ArgLists(CfgAtoms \cup CfgCalls)}

\* the text of an expression, with the given text between arguments and
\* around '='
RECURSIVE render(_, _, _)
render(e, comma, equal) ==
    IF e.form = "bare" THEN e.name
    ELSE IF e.form = "key_value" THEN e.name \o equal \o <<"\"">> \o e.right \o <<"\"">>
    ELSE e.name \o <<"(">>
         \o join(comma, [i \in 1..Len(e.args) |-> render(e.args[i], comma, equal)])
         \o <<")">>

\* the concatenation of a list of lists
RECURSIVE flatten(_)
flatten(lists) == IF lists = <<>> THEN <<>> ELSE lists[1] \o flatten(Tail(lists))

\* the nodes an expression stands for in the argument list of its function
RECURSIVE nodes_of(_)
nodes_of(e) ==
    IF e.form = "bare" THEN <<ConstantNode(e.name)>>
    ELSE IF e.form = "key_value"
    THEN <<ConstantNode(e.name), EqualityNode, StringNode(e.right)>>
    ELSE <<FunctionNode(e.name, flatten([i \in 1..Len(e.args) |-> nodes_of(e.args[i])]))>>

InitCfg ==
    /\ coredata = None
    /\ assertions \in BOOLEAN
    /\ files = [f \in FileNames |-> NoFile]
    /\ pc = "idle"
    /\ loaded = None
    /\ \E e \in CfgExpressions, comma \in {<<",", " ">>, <<",">>},
          equal \in {<<" ", "=", " ">>, <<"=">>} :
           last = [op |-> "cfg", expression |-> e, equal |-> equal,
                   expr |-> render(e, comma, equal)]
    /\ hist = NoHistory

\* parse(lex(expr)) of the expression at hand
ParseLex ==
    /\ last.op = "cfg"
    /\ last' = [op |-> "parse", expression |-> last.expression,
                equal |-> last.equal, expr |-> last.expr,
                lexed |-> lex(last.expr), res |-> parse_lex(last.expr)]
    /\ UNCHANGED <<coredata, assertions, files, pc, loaded, hist>>

NextCfg == ParseLex

SpecCfg == InitCfg /\ [][NextCfg]_vars

\* C23: for a well-formed cfg expression, parse(lex(expr)) is an AST whose
\* root is the outermost function; the arguments of each function are in
\* source order, a nested call is a FunctionNode argument of the function
\* directly around it, a bare identifier a ConstantNode, a quoted
\* identifier a StringNode without its quotes and '=' an EqualityNode
\* between its operands.
C23_ParseLex ==
    last.op = "parse" => last.res = Ok(AST(nodes_of(last.expression)[1]))

\* C23 on the expressions written with spaces around '='
C23_ParseLexSpaced ==
    (last.op = "parse" /\ last.equal = <<" ", "=", " ">>) => C23_ParseLex

\* cfg(any(all(target_os = "linux", unix), windows)) was parsed
C23_WitnessNested ==
    /\ last.op = "parse"
    /\ last.expression =
           Call(s_cfg, <<Call(s_any, <<Call(s_all, <<KeyValue(s_target_os, s_linux),
                                                      Bare(s_unix)>>),
                                       Bare(s_windows)>>)>>)
    /\ last.res = Ok(AST(nodes_of(last.expression)[1]))

(***************************************************************************)
(* The calls of one set_builtin_option: the call stack of the setter and   *)
(* of the recomputation it starts, one step per statement.  pc is the      *)
(* stack, its last frame the function that is running.                     *)
(***************************************************************************)
Frame(fn, key, value, at, writes) ==
    [fn |-> fn, key |-> key, value |-> value, at |-> at, writes |-> writes]

\* the deepest stack the steps may build
MaxStack == 6

\* the writes set_others_from_buildtype(value) makes, in order
writes_from_buildtype(value) ==
    IF buildtype_row(value) = <<>> THEN <<>>
    ELSE <<<<Key(s_optimization), PyStr(buildtype_row(value)[1])>>,
           <<Key(s_debug), PyBool(buildtype_row(value)[2])>>>>

\* the write set_buildtype_from_others() makes on the store self
writes_from_others(self) ==
    <<<<Key(s_buildtype),
        PyStr(buildtype_mode(self.builtins[s_optimization].value,
                             truthy(self.builtins[s_debug].value)))>>>>

InitDerive ==
    /\ coredata = CoreData(FALSE)
    /\ assertions \in BOOLEAN
    /\ files = [f \in FileNames |-> NoFile]
    /\ pc = <<>>
    /\ loaded = None
    /\ last = [op |-> "none"]
    /\ hist = NoHistory

\* set_builtin_option(key, value) is called
CallSetBuiltinOption ==
    /\ pc = <<>>
    /\ \E e \in ({Key(s_buildtype)} \X BuildtypeValues)
                \cup ({Key(s_optimization)} \X OptimizationValues)
                \cup ({Key(s_debug)} \X DebugValues)
                \cup ({Key(s_werror)} \X {PyBool(TRUE), PyBool(FALSE)}) :
           /\ pc' = <<Frame("set_builtin_option", e[1], e[2], "set_value", <<>>)>>
           /\ last' = [op |-> "set_builtin_option", key |-> e[1], value |-> e[2],
                       before |-> coredata, recomputations |-> 0, setters |-> 1,
                       res |-> None]
    /\ UNCHANGED <<coredata, assertions, files, loaded, hist>>

\* set_builtin_option: self.get_builtin_option_raw(key).set_value(value);
\* an exception leaves every frame
RawSetValue ==
    /\ pc # <<>>
    /\ pc[Len(pc)].fn = "set_builtin_option" /\ pc[Len(pc)].at = "set_value"
    /\ \E r \in {set_raw(coredata, pc[Len(pc)].key, pc[Len(pc)].value)} :
           IF Raised(r.res)
           THEN /\ pc' = <<>>
                /\ last' = [last EXCEPT !.res = r.res]
                /\ UNCHANGED coredata
           ELSE /\ coredata' = r.cd
                /\ pc' = [pc EXCEPT ![Len(pc)].at = "derive"]
                /\ UNCHANGED last
    /\ UNCHANGED <<assertions, files, loaded, hist>>

\* set_builtin_option: the if on key.name calls set_others_from_buildtype
\* or set_buildtype_from_others, or nothing
Derive ==
    /\ pc # <<>>
    /\ pc[Len(pc)].fn = "set_builtin_option" /\ pc[Len(pc)].at = "derive"
    /\ IF pc[Len(pc)].key.name = s_buildtype
       THEN IF /\ buildtype_row(pc[Len(pc)].value) = <<>>
               /\ assertions /\ pc[Len(pc)].value # PyStr(s_custom)
            THEN /\ pc' = <<>>
                 /\ last' = [last EXCEPT !.res = Raise("AssertionError"),
                                         !.recomputations = @ + 1]
            ELSE /\ pc' = Append([pc EXCEPT ![Len(pc)].at = "return"],
                                 Frame("set_others_from_buildtype", pc[Len(pc)].key,
                                       pc[Len(pc)].value, "write",
                                       writes_from_buildtype(pc[Len(pc)].value)))
                 /\ last' = [last EXCEPT !.recomputations = @ + 1]
       ELSE IF pc[Len(pc)].key.name \in {s_debug, s_optimization}
       THEN /\ pc' = Append([pc EXCEPT ![Len(pc)].at = "return"],
                            Frame("set_buildtype_from_others", pc[Len(pc)].key,
                                  pc[Len(pc)].value, "write",
                                  writes_from_others(coredata)))
            /\ last' = [last EXCEPT !.recomputations = @ + 1]
       ELSE /\ pc' = [pc EXCEPT ![Len(pc)].at = "return"]
            /\ UNCHANGED last
    /\ UNCHANGED <<coredata, assertions, files, loaded, hist>>

\* a variant of the write of a recomputation with a bug: the derived option
\* is written with self.set_builtin_option(key, value)
DerivedWrite_through_set_builtin_option ==
    /\ pc # <<>> /\ Len(pc) < MaxStack
    /\ pc[Len(pc)].at = "write" /\ pc[Len(pc)].writes # <<>>
    /\ pc' = Append([pc EXCEPT ![Len(pc)].writes = Tail(@)],
                    Frame("set_builtin_option", pc[Len(pc)].writes[1][1],
                          pc[Len(pc)].writes[1][2], "set_value", <<>>))
    /\ last' = [last EXCEPT !.setters = @ + 1]
    /\ UNCHANGED <<coredata, assertions, files, loaded, hist>>

\* a recomputation writes a derived option:
\* self.get_builtin_option_raw(OptionKey(name)).set_value(value)
DerivedWrite ==
    /\ pc # <<>>
    /\ pc[Len(pc)].at = "write" /\ pc[Len(pc)].writes # <<>>
    /\ \E r \in {set_raw(coredata, pc[Len(pc)].writes[1][1], pc[Len(pc)].writes[1][2])} :
           IF Raised(r.res)
           THEN /\ pc' = <<>>
                /\ last' = [last EXCEPT !.res = r.res]
                /\ UNCHANGED coredata
           ELSE /\ coredata' = r.cd
                /\ pc' = [pc EXCEPT ![Len(pc)].writes = Tail(@)]
                /\ UNCHANGED last
    /\ UNCHANGED <<assertions, files, loaded, hist>>

\* the running function returns
Return ==
    /\ pc # <<>>
    /\ \/ pc[Len(pc)].at = "return"
       \/ pc[Len(pc)].at = "write" /\ pc[Len(pc)].writes = <<>>
    /\ pc' = SubSeq(pc, 1, Len(pc) - 1)
    /\ last' = IF Len(pc) = 1 THEN [last EXCEPT !.res = Ok(None)] ELSE last
    /\ UNCHANGED <<coredata, assertions, files, loaded, hist>>

NextDerive == CallSetBuiltinOption \/ RawSetValue \/ Derive \/ DerivedWrite \/ Return

SpecDerive == InitDerive /\ [][NextDerive]_vars

\* a call that was started goes on to its next statement
SpecDeriveFair ==
    SpecDerive /\ WF_vars(RawSetValue \/ Derive \/ DerivedWrite \/ Return)

\* the steps of a finished call leave what set_builtin_option computes
C24_StepsAgree ==
    (pc = <<>> /\ last.op = "set_builtin_option") =>
        /\ last.res = set_builtin_option(last.before, last.key, last.value).res
        /\ coredata = set_builtin_option(last.before, last.key, last.value).cd

\* the frames of the recomputations on the stack
Recomputing ==
    {i \in 1..Len(pc) :
        pc[i].fn \in {"set_others_from_buildtype", "set_buildtype_from_others"}}

\* C24: a single set of buildtype, optimization or debug terminates after
\* at most one derived recomputation: the recomputation writes the derived
\* options through the low-level setter, so no setter and no other
\* recomputation ever runs above it, and the call returns.
C24_OneRecomputation ==
    /\ [](last.op = "set_builtin_option" =>
              /\ last.recomputations <= 1
              /\ last.setters = 1
              /\ Cardinality(Recomputing) <= 1
              /\ \A i \in Recomputing : i = Len(pc))
    /\ (pc # <<>>) ~> (pc = <<>>)

\* set_buildtype_from_others has written buildtype=custom after
\* optimization=g, and is about to return
C24_Witness ==
    /\ pc # <<>>
    /\ pc[Len(pc)].fn = "set_buildtype_from_others" /\ pc[Len(pc)].writes = <<>>
    /\ last.key = Key(s_optimization) /\ last.value = PyStr(s_g)
    /\ last.recomputations = 1
    /\ coredata.builtins[s_buildtype].value = PyStr(s_custom)

\* buildtype=release has been set and its call has returned
C24_WitnessReturned ==
    /\ pc = <<>> /\ last.op = "set_builtin_option"
    /\ last.key = Key(s_buildtype) /\ last.value = PyStr(s_release)
    /\ last.res = Ok(None) /\ last.recomputations = 1
    /\ coredata.builtins[s_optimization].value = PyStr(s_3)

\* C25: no execution of set_default_options reaches the debugging
\* breakpoint, so every call goes on to apply the merged options through
\* set_options.
C25_BreakpointUnreached ==
    last.op = "set_default_options" =>
        /\ ~last.breakpoint
        /\ last.res # Raise("BdbQuit")

\* every call whose first loop raises nothing reaches the breakpoint
C25_BreakpointReached ==
    last.op = "set_default_options" =>
        last.breakpoint =
            ~Raised(split_default_options(last.before, last.default_options,
                                          last.subproject, <<>>,
                                          Environment(last.builtin_options)).res)

\* the debugger was left with quit: the defaults were never applied
C25_WitnessQuit ==
    /\ last.op = "set_default_options" /\ last.breakpoint
    /\ last.res = Raise("BdbQuit")
    /\ last.default_options = <<<<Key(s_werror), PyStr(s_true)>>>>
    /\ coredata = last.before

\* the command line of the latest call names no root-level option
NoRootOnCmdLine ==
    \A i \in 1..Len(last.builtin_options) :
        last.builtin_options[i][1].subproject # s_empty

\* C28: set_default_options for a non-empty subproject S with S's declared
\* default options leaves the value of every root-level builtin option
\* unchanged (the command line naming no root-level option).
C28_RootUnchanged ==
    (last.op = "set_default_options" /\ last.subproject # s_empty
     /\ NoRootOnCmdLine) =>
        \A n \in DOMAIN BUILTIN_OPTIONS :
            get(coredata, Key(n)) = get(last.before, Key(n))

\* C28 for the calls whose default_options name no builtin option, after
\* init_builtins for the subproject and with no yielding option of the
\* subproject on the command line
C28_RootUnchangedNoBuiltin ==
    (last.op = "set_default_options" /\ last.subproject # s_empty
     /\ NoRootOnCmdLine
     /\ (\A i \in 1..Len(last.default_options) :
            classify_argument(last.default_options[i][1]) # Ok("BUILTIN"))
     /\ ~dict_has(last.builtin_options, OptionKey(s_strip, s_sub, HOST, None))
     /\ __str__(OptionKey(s_werror, s_sub, HOST, None)) \in DOMAIN last.before.builtins) =>
        \A n \in DOMAIN BUILTIN_OPTIONS :
            get(coredata, Key(n)) = get(last.before, Key(n))

\* the subproject's default werror=true, with an empty command line,
\* turned the root-level werror on
C28_WitnessRootChanged ==
    /\ last.op = "set_default_options" /\ last.subproject = s_sub
    /\ last.builtin_options = <<>>
    /\ last.default_options = <<<<Key(s_werror), PyStr(s_true)>>>>
    /\ ~Raised(last.res)
    /\ get(last.before, Key(s_werror)) = Ok(PyBool(FALSE))
    /\ get(coredata, Key(s_werror)) = Ok(PyBool(TRUE))
    /\ __str__(OptionKey(s_werror, s_sub, HOST, None)) \in DOMAIN last.before.builtins

(***************************************************************************)
(* The buildtype triple under every way of setting an option:              *)
(* set_builtin_option, set_any_option and set_options, with values the     *)
(* options accept and values they refuse.                                  *)
(***************************************************************************)
s_bogus == <<"b", "o", "g", "u", "s">>

\* the longest batch handed to set_options
MaxTripleBatch == 2

\* entries for buildtype, optimization and debug
TripleEntries ==
    {<<Key(s_buildtype), PyStr(v)>> : v \in {s_release, s_custom}}
    \cup {<<Key(s_optimization), PyStr(v)>> : v \in {s_g, s_bogus}}
    \cup {<<Key(s_debug), PyBool(FALSE)>>}

\* the keys of an entry that set_any_option is called with: the key itself,
\* the key of the subproject and the one of the build machine
TripleKeys(key) ==
    {key, [key EXCEPT !.subproject = s_sub], [key EXCEPT !.machine = BUILD]}

TripleSetAnyOption ==
    /\ \E e \in TripleEntries : \E key \in TripleKeys(e[1]) :
           \E r \in {set_any_option(coredata, key, e[2])} :
               /\ coredata' = r.cd
               /\ last' = [op |-> "set_any_option", key |-> key, value |-> e[2],
                           before |-> coredata, res |-> r.res]
    /\ UNCHANGED <<assertions, files, pc, loaded, hist>>

TripleSetOptions ==
    /\ \E options \in Batches(TripleEntries, MaxTripleBatch) :
           Call_set_options(options)
    /\ UNCHANGED <<assertions, files, pc, loaded, hist>>

NextTriple ==
    \/ SetBuildtype \/ SetOptimization \/ SetDebug
    \/ TripleSetAnyOption \/ TripleSetOptions

SpecTriple == InitBuildtype /\ [][NextTriple]_vars

\* C26: over every sequence of set_builtin_option, set_any_option and
\* set_options calls, successful or failing, from the default store:
\* whenever the stored buildtype is not 'custom', the stored optimization
\* and debug are the table row of that buildtype.
C26_TripleConsistent ==
    coredata.builtins[s_buildtype].value # PyStr(s_custom) =>
        \E i \in 1..Len(BuildtypeRows) :
            /\ coredata.builtins[s_buildtype].value = PyStr(BuildtypeRows[i][1])
            /\ coredata.builtins[s_optimization].value = PyStr(BuildtypeRows[i][2])
            /\ coredata.builtins[s_debug].value = PyBool(BuildtypeRows[i][3])

\* a batch that set buildtype=release and then failed on optimization=bogus
C26_Witness ==
    /\ last.op = "set_options" /\ Raised(last.res)
    /\ last.options = <<<<Key(s_buildtype), PyStr(s_release)>>,
                        <<Key(s_optimization), PyStr(s_bogus)>>>>
    /\ last.before.builtins[s_buildtype].value = PyStr(s_custom)
    /\ coredata.builtins[s_buildtype].value = PyStr(s_release)
    /\ coredata.builtins[s_optimization].value = PyStr(s_3)
    /\ coredata.builtins[s_debug].value = PyBool(FALSE)

\* set_any_option took the store from custom back to a table row
C26_WitnessAny ==
    /\ last.op = "set_any_option" /\ ~Raised(last.res)
    /\ last.before.builtins[s_buildtype].value = PyStr(s_custom)
    /\ coredata.builtins[s_buildtype].value = PyStr(s_plain)

\* C27: get is read-only: a call of get_any_option, whether it returns an
\* option or fails, leaves the keys of every group, the per-machine,
\* per-language compiler tables included, and every value as before.
C27_GetReadOnly ==
    last.op = "get_any_option" => coredata = last.before

\* C27 for the keys of every group but the compiler options
C27_GetReadOnlyNoCompiler ==
    (last.op = "get_any_option" /\ last.classifier # Ok("COMPILER")) =>
        coredata = last.before

\* C27 for the compiler options of a language that has a table
C27_GetReadOnlyKnownLanguage ==
    (last.op = "get_any_option" /\ last.classifier = Ok("COMPILER")
     /\ last.key.language.str \in DOMAIN last.before.compiler_options[last.key.machine]) =>
        coredata = last.before

\* a failed lookup of a compiler option left an empty table for its
\* language behind
C27_WitnessInserted ==
    /\ last.op = "get_any_option" /\ last.res = Raise("KeyError")
    /\ last.key.language # None
    /\ last.key.language.str \notin DOMAIN last.before.compiler_options[last.key.machine]
    /\ last.key.language.str \in DOMAIN coredata.compiler_options[last.key.machine]

\* C29: set_options is all-or-nothing on failure: when the call raises a
\* validation or directory-sanitization error for some option of the
\* batch, every option value in the store, prefix and the build-machine
\* duplicates included, equals its value before the call.
C29_AllOrNothing ==
    (last.op = "set_options" /\ last.res = Raise("MesonException")) =>
        /\ coredata.builtins = last.before.builtins
        /\ coredata.builtins_per_machine = last.before.builtins_per_machine

\* C29 for the batches of a single option
C29_AllOrNothingSingle ==
    (last.op = "set_options" /\ last.res = Raise("MesonException")
     /\ Len(last.options) = 1) =>
        coredata = last.before

\* the batch failed on its libdir after it had stored its prefix
C29_WitnessPartial ==
    /\ last.op = "set_options" /\ last.res = Raise("MesonException")
    /\ last.options = <<<<Key(s_prefix), PyStr(s_slash_opt)>>,
                        <<Key(s_libdir), PyStr(s_usr_lib64)>>>>
    /\ last.before.builtins[s_prefix].value # PyStr(s_slash_opt)
    /\ coredata.builtins[s_prefix].value = PyStr(s_slash_opt)
    /\ coredata.builtins[s_libdir].value = last.before.builtins[s_libdir].value

(***************************************************************************)
(* The dependency caches: CoreData.deps holds one DependencyCache per      *)
(* machine; a cache looks a key up under a subkey taken from the path      *)
(* option of the machine it was constructed for.                           *)
(***************************************************************************)
s_cmake_prefix_path == <<"c", "m", "a", "k", "e", "_", "p", "r", "e", "f", "i", "x", "_", "p", "a", "t", "h">>
s_zlib == <<"z", "l", "i", "b">>

DependencyCacheType == {"OTHER", "PKG_CONFIG", "CMAKE"}

\* a dependency object: its class and its identity
Dependency(class, id) == [class |-> class, id |-> id]

\* DependencyCacheType.from_type
from_type(dep) ==
    IF dep.class = "PkgConfigDependency" THEN "PKG_CONFIG"
    ELSE IF dep.class = "CMakeDependency" THEN "CMAKE"
    ELSE "OTHER"

\* DependencySubCache.__init__
DependencySubCache(type_) == [types |-> <<type_>>, cache |-> <<>>]

\* DependencyCache.__init__; builtins_per_machine is the store's own dict,
\* read through the store at every call
DependencyCache(for_machine) == [cache |-> <<>>, for_machine |-> for_machine]

\* PerMachine(build, host)
PerMachine(build, host) == (BUILD :> build) @@ (HOST :> host)

\* tuple(list)
tuple(l) == l.list

\* DependencyCache.__calculate_subkey
calculate_subkey(self, builtins_per_machine, type_) ==
    IF type_ = "PKG_CONFIG"
    THEN tuple(builtins_per_machine[self.for_machine][s_pkg_config_path].value)
    ELSE IF type_ = "CMAKE"
    THEN tuple(builtins_per_machine[self.for_machine][s_cmake_prefix_path].value)
    ELSE <<>>

\* DependencyCache.put: the cache after the call
DependencyCache_put(self, builtins_per_machine, key, dep) ==
    With(from_type(dep), LAMBDA t :
    With(setdefault(self.cache, key, DependencySubCache(t)), LAMBDA cache :
    With(calculate_subkey(self, builtins_per_machine, t), LAMBDA subkey :
    With(dict_get(cache, key), LAMBDA sub :
        [self EXCEPT !.cache =
            dict_set(cache, key,
                     [sub EXCEPT !.cache = dict_set(@, subkey, dep)])]))))

\* DependencyCache.get: the dependency, or None
DependencyCache_get(self, builtins_per_machine, key) ==
    IF ~dict_has(self.cache, key) THEN None
    ELSE LET val  == dict_get(self.cache, key)
             hits == {i \in 1..Len(val.types) :
                         dict_has(val.cache,
                             calculate_subkey(self, builtins_per_machine,
                                              val.types[i]))}
         IN  IF hits = {} THEN None
             ELSE LET i == CHOOSE j \in hits : \A h \in hits : j <= h
                  IN  dict_get(val.cache,
                          calculate_subkey(self, builtins_per_machine,
                                           val.types[i]))

\* DependencyCache.clear
DependencyCache_clear(self) == [self EXCEPT !.cache = <<>>]

\* CoreData.__init__ with its dependency caches, both constructed for the
\* build machine, and with cmake_prefix_path among the per-machine builtins
CoreDataWithDeps(cross_files) ==
    LET cd  == CoreData(cross_files)
        bpm == [m \in MachineChoice |->
                   add_builtin_option(cd.builtins_per_machine[m],
                       s_cmake_prefix_path,
                       BuiltinOption("array", PyList(<<>>), TRUE, <<>>),
                       s_empty)]
        build_cache == DependencyCache(BUILD)
        host_cache  == DependencyCache(BUILD)
    IN  [f \in DOMAIN cd \cup {"deps"} |->
            IF f = "deps" THEN PerMachine(build_cache, host_cache)
            ELSE IF f = "builtins_per_machine" THEN bpm
            ELSE cd[f]]

MaxPuts == 2
DepKeys == {s_zlib}
Dependencies ==
    {Dependency("PkgConfigDependency", 1), Dependency("PkgConfigDependency", 2),
     Dependency("CMakeDependency", 1), Dependency("Dependency", 1)}
PathOptions == {s_pkg_config_path, s_cmake_prefix_path}
PathValues == {PyList(<<>>), PyList(<<PyStr(s_slash_a)>>)}

\* the path option a cache type is keyed on
path_option(type_) ==
    IF type_ = "PKG_CONFIG" THEN s_pkg_config_path ELSE s_cmake_prefix_path

\* the values both machines have for the path option of a cache type
paths(self, type_) ==
    [m \in MachineChoice |->
        IF type_ = "OTHER" THEN PyList(<<>>)
        ELSE self.builtins_per_machine[m][path_option(type_)].value]

InitDeps ==
    /\ coredata \in {CoreDataWithDeps(cross_files) : cross_files \in BOOLEAN}
    /\ assertions = TRUE
    /\ files = [f \in FileNames |-> NoFile]
    /\ pc = "idle"
    /\ loaded = None
    /\ last = [op |-> "none"]
    /\ hist = [puts |-> <<>>]

\* coredata.deps[for_machine].put(key, dep)
DepsPut ==
    /\ Len(hist.puts) < MaxPuts
    /\ \E for_machine \in MachineChoice, key \in DepKeys, dep \in Dependencies :
           /\ coredata' = [coredata EXCEPT !.deps[for_machine] =
                  DependencyCache_put(@, coredata.builtins_per_machine, key, dep)]
           /\ last' = [op |-> "put"]
           /\ hist' = [hist EXCEPT !.puts =
                  Append(@, [machine |-> for_machine, key |-> key, dep |-> dep,
                             paths |-> paths(coredata, from_type(dep))])]
    /\ UNCHANGED <<assertions, files, pc, loaded>>

\* coredata.deps[for_machine].get(key)
DepsGet ==
    /\ \E for_machine \in MachineChoice, key \in DepKeys :
           last' = [op |-> "get", machine |-> for_machine, key |-> key,
                    res |-> DependencyCache_get(coredata.deps[for_machine],
                                coredata.builtins_per_machine, key)]
    /\ UNCHANGED <<coredata, assertions, files, pc, loaded, hist>>

\* coredata.deps[for_machine].clear()
DepsClear ==
    /\ \E for_machine \in MachineChoice :
           /\ coredata.deps[for_machine].cache # <<>>
           /\ coredata' = [coredata EXCEPT !.deps[for_machine] =
                               DependencyCache_clear(@)]
           /\ last' = [op |-> "clear"]
           /\ hist' = [hist EXCEPT !.puts =
                  SelectSeq(@, LAMBDA p : p.machine # for_machine)]
    /\ UNCHANGED <<assertions, files, pc, loaded>>

\* a path option of one machine is given a new value
SetPathOption ==
    /\ \E m \in MachineChoice, name \in PathOptions, value \in PathValues :
           \E r \in {set_value(coredata.builtins_per_machine[m][name], value)} :
               /\ ~Raised(r)
               /\ r.ok.value # coredata.builtins_per_machine[m][name].value
               /\ coredata' = [coredata EXCEPT
                      !.builtins_per_machine[m][name] = r.ok]
               /\ last' = [op |-> "set_value"]
    /\ UNCHANGED <<assertions, files, pc, loaded, hist>>

NextDeps == DepsPut \/ DepsGet \/ DepsClear \/ SetPathOption

SpecDeps == InitDeps /\ [][NextDeps]_vars

\* get(key) on the cache of machine M answers as a cache keyed on the path
\* option of machine P does, for a key that was only put with pkg-config
\* dependencies or only with cmake dependencies: the dependency of the
\* latest put made under the present value of P's option, None if no put
\* was made under it
KeyedOn(M, P) ==
    (last.op = "get" /\ last.machine = M) =>
        LET puts == SelectSeq(hist.puts,
                        LAMBDA p : p.machine = M /\ p.key = last.key)
        IN  (/\ puts # <<>>
             /\ from_type(puts[1].dep) # "OTHER"
             /\ \A i \in 1..Len(puts) :
                    from_type(puts[i].dep) = from_type(puts[1].dep)) =>
                LET now  == paths(coredata, from_type(puts[1].dep))[P]
                    same == {i \in 1..Len(puts) : puts[i].paths[P] = now}
                IN  IF same = {} THEN last.res = None
                    ELSE last.res =
                             puts[CHOOSE i \in same : \A j \in same : j <= i].dep

\* C30: the dependency cache of machine M keys pkg-config and cmake
\* dependencies on M's own pkg_config_path / cmake_prefix_path: after
\* put(key, dep) on the host cache, get(key) returns dep while the host
\* machine's path option is unchanged, returns None after that option is
\* changed, and is unaffected by changes to the build machine's option.
C30_HostKeyedOnHost == KeyedOn(HOST, HOST)

\* the host cache is keyed on the build machine's path options
C30_HostKeyedOnBuild == KeyedOn(HOST, BUILD)

\* the build cache is keyed on the build machine's path options
C30_BuildKeyedOnBuild == KeyedOn(BUILD, BUILD)

\* get on the host cache returned the pkg-config dependency put there
\* although the host's pkg_config_path was changed since the put
C30_WitnessStale ==
    /\ last.op = "get" /\ last.machine = HOST
    /\ Len(hist.puts) = 1
    /\ hist.puts[1].machine = HOST
    /\ hist.puts[1].dep = Dependency("PkgConfigDependency", 1)
    /\ hist.puts[1].paths[HOST] # paths(coredata, "PKG_CONFIG")[HOST]
    /\ hist.puts[1].paths[BUILD] = paths(coredata, "PKG_CONFIG")[BUILD]
    /\ last.res = hist.puts[1].dep

\* get on the host cache returned None after only the build machine's
\* pkg_config_path was changed since the put
C30_WitnessBuildChanged ==
    /\ last.op = "get" /\ last.machine = HOST
    /\ Len(hist.puts) = 1
    /\ hist.puts[1].machine = HOST
    /\ hist.puts[1].dep = Dependency("PkgConfigDependency", 1)
    /\ hist.puts[1].paths[HOST] = paths(coredata, "PKG_CONFIG")[HOST]
    /\ hist.puts[1].paths[BUILD] # paths(coredata, "PKG_CONFIG")[BUILD]
    /\ last.res = None

=============================================================================
